---- MODULE Spec2Model ----
(***************************************************************************)
(* The two TradingAgentRegistry contracts of src/unnamed/part_003:         *)
(*   - the swap registry (lines 75-551): Pyth + ENS + 1inch + Chainlink    *)
(*     Automation, executeSwap / performUpkeep / checkUpkeep;              *)
(*   - the trigger-only registry (lines 885-1260): checkAndExecuteTrigger  *)
(*     and transferAgentOwnership.                                         *)
(* One deployment is one of the two; the variable "contract" says which.   *)
(* Every external call of a contract is one atomic action (a transaction   *)
(* either commits or reverts as a whole); "last" holds the outcome of the  *)
(* call the latest step made.                                              *)
(***************************************************************************)
EXTENDS Integers, Sequences, FiniteSets, TLC

\* ------------------------------------------------------------------ bounds
MaxAgents == 3
MaxUsers == 2
MaxTicks == 1
MaxExec == 2
MaxBalance == 2
StartTime == 1000
\* the unsigned integers of the registry, scaled from 256 bits
UintBits == 12
\* the run() loops one keeper object is followed through
MaxLoops == 4
\* Date.now() of the keeper, in milliseconds: it advances by ClockStep up
\* to MaxClock
ClockStep == 5000
MaxClock == 30000
MaxUint == 2^UintBits - 1

\* ------------------------------------------------------- program constants
\* address(0) / bytes32(0)
ZeroAddress == 0
\* uint256 public priceMaxAge = 300
DefaultPriceMaxAge == 300
\* uint256 public maxAgentsPerCheck = 50
DefaultMaxAgentsPerCheck == 50
\* getPriceNoOlderThan(strategy.priceFeedId, 300) in the trigger-only registry
TriggerPriceMaxAge == 300
\* fetchPriceUpdateData: Date.now() - cached.timestamp < 10000
CacheTtl == 10000

AgentIds == 1..MaxAgents
Users == 1..MaxUsers
Tokens == {1, 2}
\* the one feed the oracle knows; any other non-zero id is unknown to it
KnownFeed == {1}
\* mantissas the oracle may report (int64; non-positive ones are invalid)
Prices == {-1, 1, 2, 3}
\* the observations the oracle publishes: (mantissa, exponent)
Observations ==
    {[price |-> p, expo |-> -8] : p \in Prices} \cup {[price |-> 2, expo |-> 1]}
\* ENS labels a creator may pick
Labels == {1}

VARIABLES
    contract,           \* "swap" or "trigger": which registry is deployed
    agents,             \* mapping(bytes32 => Agent)
    userAgents,         \* mapping(address => bytes32[])
    allAgentIds,        \* bytes32[] (swap registry only)
    agentCount,         \* uint256
    ensNodeToAgentId,   \* mapping(bytes32 => bytes32) (trigger-only registry)
    maxAgentsPerCheck,  \* uint256 (swap registry only)
    priceMaxAge,        \* uint256 (swap registry only)
    now,                \* block.timestamp
    pyth,               \* the oracle's observation of the known feed
    balance,            \* ERC20 balanceOf(address(this)) per token
    approved,           \* tokens whose allowance to the router is non-zero
    events,             \* per agent: number of execution events emitted
                        \* and the latest one (block timestamp, fields)
    keeper,             \* the off-chain TradingAgentKeeper process
    last                \* the call made by the latest step (operation, agent,
                        \* outcome); NoCall after a step of the environment

vars == <<contract, agents, userAgents, allAgentIds, agentCount,
          ensNodeToAgentId, maxAgentsPerCheck, priceMaxAge, now, pyth, balance, approved,
          events, keeper, last>>

registry == <<agents, userAgents, allAgentIds, agentCount, ensNodeToAgentId>>
config == <<maxAgentsPerCheck, priceMaxAge>>
world == <<contract, now, pyth, keeper>>
tokens == <<balance, approved>>

\* ------------------------------------------------------------------ types
\* struct TradingStrategy; the trigger-only registry's struct has no
\* minReturnAmount, which stays 0 there.
ZeroStrategy ==
    [priceFeedId |-> 0, triggerPrice |-> 0, triggerAbove |-> FALSE,
     tokenIn |-> 0, tokenOut |-> 0, amountIn |-> 0, minReturnAmount |-> 0,
     isActive |-> FALSE, lastExecuted |-> 0, cooldownPeriod |-> 0]

\* struct Agent; the default value of an unset mapping slot. The
\* trigger-only registry's struct has no totalExecutions, which stays 0.
NoAgent ==
    [owner |-> ZeroAddress, ensNode |-> 0, ensName |-> 0,
     strategy |-> ZeroStrategy, createdAt |-> 0, totalExecutions |-> 0,
     exists |-> FALSE]

\* class TradingAgentKeeper before start(): isRunning = false. pc is the
\* place the process is at ("exited" once the process has ended),
\* agentIds the candidates of the cycle under way, next the index of the
\* one being processed, step the await of executeAgent it is at, done the
\* candidates processed in this cycle.
\* The feeds the keeper asks Hermes for, and a feed with no cache entry.
CacheFeeds == {1, 2}
NoEntry == [data |-> "", timestamp |-> -1]

KeeperOff ==
    [isRunning |-> FALSE, pc |-> "off", agentIds |-> <<>>, next |-> 0,
     step |-> "none", done |-> <<>>,
     loops |-> [i \in 1..MaxLoops |-> "none"],
     priceCache |-> [f \in CacheFeeds |-> NoEntry], clock |-> 0]

\* The log of an agent that has emitted no execution event.
NoEvents == [n |-> 0, time |-> 0, triggerPrice |-> 0, actualPrice |-> 0,
             expo |-> 0]

\* emit SwapExecuted(agentId, tokenIn, tokenOut, swapAmount, returnAmount,
\* strategy.triggerPrice, currentPrice): the log with one more record
SwapExecutedStale(log, strategy, currentPrice, t) ==
    [n |-> log.n + 1, time |-> t, triggerPrice |-> strategy.triggerPrice,
     actualPrice |-> strategy.triggerPrice, expo |-> 0]

SwapExecuted(log, strategy, currentPrice, t) ==
    [n |-> log.n + 1, time |-> t, triggerPrice |-> strategy.triggerPrice,
     actualPrice |-> currentPrice, expo |-> 0]

\* emit TriggerExecuted(agentId, priceFeedId, price.price, price.expo,
\* strategy.triggerPrice, block.timestamp)
TriggerExecuted(log, strategy, price, t) ==
    [n |-> log.n + 1, time |-> t, triggerPrice |-> strategy.triggerPrice,
     actualPrice |-> price.price, expo |-> price.expo]

NoCall == [op |-> "none", id |-> 0, result |-> "ok"]
Call(op, id, result) == [op |-> op, id |-> id, result |-> result]

\* ------------------------------------------------------- helper operators
RECURSIVE Pow10(_)
Pow10(n) == IF n <= 0 THEN 1 ELSE 10 * Pow10(n - 1)

SeqToSet(s) == {s[i] : i \in 1..Len(s)}
Occurrences(s, x) == Cardinality({i \in 1..Len(s) : s[i] = x})

\* ------------------------------------------------------------ the oracle
\* IPyth.getPriceUnsafe: reverts for a feed the oracle does not know.
PythKnows(feedId) == feedId \in KnownFeed

\* IPyth.getPriceNoOlderThan(id, age): reverts for an unknown feed or an
\* observation older than age.
PythFreshAnyAge(feedId, age, t) == PythKnows(feedId)

PythFresh(feedId, age, t) ==
    /\ PythKnows(feedId)
    /\ t - pyth.publishTime <= age

\* ----------------------------------------------------- price normalization
\* The outcome of a conversion or a view: a value, or a revert.
Value(v) == [ok |-> TRUE, value |-> v]
Revert(reason) == [ok |-> FALSE, value |-> reason]

\* _convertPrice (swap registry); require(price > 0, "Invalid price")
ConvertPriceUnchecked(price, expo) ==
    IF expo < 0 THEN Value(price) ELSE Value(price * Pow10(expo))

ConvertPrice(price, expo) ==
    IF price <= 0 THEN Revert("InvalidPrice")
    ELSE IF expo < 0 THEN Value(price)
    ELSE Value(price * Pow10(expo))

\* _convertPriceToUint (trigger-only registry)
ConvertPriceToUint(price, expo) ==
    IF price <= 0 THEN Revert("InvalidPrice")
    ELSE IF expo < 0 THEN Value(price)
    ELSE Value(price * Pow10(expo))

\* ------------------------------------------------------- trigger decision
\* checkUpkeep, lines 237-239
CheckUpkeepTriggeredStrict(strategy, currentPrice) ==
    IF strategy.triggerAbove
        THEN currentPrice > strategy.triggerPrice
        ELSE currentPrice < strategy.triggerPrice

CheckUpkeepTriggered(strategy, currentPrice) ==
    IF strategy.triggerAbove
        THEN currentPrice >= strategy.triggerPrice
        ELSE currentPrice <= strategy.triggerPrice

\* executeSwap, lines 307-309
ExecuteSwapTriggeredStrict(strategy, currentPrice) ==
    IF strategy.triggerAbove
        THEN currentPrice > strategy.triggerPrice
        ELSE currentPrice < strategy.triggerPrice

ExecuteSwapTriggered(strategy, currentPrice) ==
    IF strategy.triggerAbove
        THEN currentPrice >= strategy.triggerPrice
        ELSE currentPrice <= strategy.triggerPrice

\* checkTrigger (swap registry), lines 488-490
CheckTriggerTriggered(strategy, priceValue) ==
    IF strategy.triggerAbove
        THEN priceValue >= strategy.triggerPrice
        ELSE priceValue <= strategy.triggerPrice

\* checkAndExecuteTrigger, lines 1059-1061
TriggerMet(strategy, currentPrice) ==
    IF strategy.triggerAbove
        THEN currentPrice >= strategy.triggerPrice
        ELSE currentPrice <= strategy.triggerPrice

\* checkTrigger (trigger-only registry), lines 1144-1146
CheckTriggerMet(strategy, priceValue) ==
    IF strategy.triggerAbove
        THEN priceValue >= strategy.triggerPrice
        ELSE priceValue <= strategy.triggerPrice

\* ------------------------------------------------------- activity gate
\* !agent.strategy.isActive (lines 216, 291, 1031)
StrategyInactiveIgnored(strategy) == FALSE

StrategyInactive(strategy) == ~strategy.isActive

\* ------------------------------------------------------------- cooldown
\* block.timestamp < strategy.lastExecuted + strategy.cooldownPeriod
CooldownActiveInclusive(strategy, t) ==
    t <= strategy.lastExecuted + strategy.cooldownPeriod

CooldownActive(strategy, t) ==
    t < strategy.lastExecuted + strategy.cooldownPeriod

\* The sum is checked uint256 arithmetic (pragma solidity ^0.8.13): it
\* panics when it exceeds the largest value of the type.
CooldownOverflows(strategy) ==
    strategy.lastExecuted + strategy.cooldownPeriod > MaxUint

\* ---------------------------------------------------------- swap amount
\* strategy.amountIn == 0 ? balance : strategy.amountIn
SwapAmountFixed(strategy, bal) == strategy.amountIn

SwapAmount(strategy, bal) ==
    IF strategy.amountIn = 0 THEN bal ELSE strategy.amountIn

\* balance < swapAmount || swapAmount == 0
InsufficientBalance(strategy, bal) ==
    bal < SwapAmount(strategy, bal) \/ SwapAmount(strategy, bal) = 0

\* checkUpkeep, lines 224-226: agent.strategy.amountIn == 0 ? balance : amountIn
RequiredAmount(strategy, bal) ==
    IF strategy.amountIn = 0 THEN bal ELSE strategy.amountIn

\* checkUpkeep, line 228: balance < requiredAmount || requiredAmount == 0
CheckUpkeepUnfunded(strategy, bal) ==
    bal < RequiredAmount(strategy, bal) \/ RequiredAmount(strategy, bal) = 0

\* ------------------------------------------------------------ validation
\* the field checks of _validateStrategy and _isValidStrategy
IsValidStrategySameTokens(strategy) ==
    /\ strategy.priceFeedId # 0
    /\ strategy.triggerPrice > 0
    /\ strategy.tokenIn # ZeroAddress
    /\ strategy.tokenOut # ZeroAddress

IsValidStrategy(strategy) ==
    /\ strategy.priceFeedId # 0
    /\ strategy.triggerPrice > 0
    /\ strategy.tokenIn # ZeroAddress
    /\ strategy.tokenOut # ZeroAddress
    /\ strategy.tokenIn # strategy.tokenOut

\* _validateStrategy (swap registry): "ok" or the revert reason
ValidateStrategy(strategy) ==
    IF ~IsValidStrategy(strategy) THEN "InvalidStrategy"
    ELSE IF ~PythKnows(strategy.priceFeedId) THEN "InvalidStrategy"
    ELSE "ok"

\* _isValidStrategy followed by _validatePriceFeed (trigger-only registry)
ValidateTriggerStrategy(strategy) ==
    IF ~IsValidStrategy(strategy) THEN "InvalidStrategy"
    ELSE IF ~PythKnows(strategy.priceFeedId) THEN "InvalidPriceFeed"
    ELSE "ok"

\* ------------------------------------------------------------------ Init
Init ==
    /\ contract \in {"swap", "trigger"}
    /\ agents = [id \in AgentIds |-> NoAgent]
    /\ userAgents = [u \in Users |-> <<>>]
    /\ allAgentIds = <<>>
    /\ agentCount = 0
    /\ ensNodeToAgentId = [l \in Labels |-> 0]
    /\ maxAgentsPerCheck = DefaultMaxAgentsPerCheck
    /\ priceMaxAge = DefaultPriceMaxAge
    /\ now = StartTime
    /\ pyth \in {[price |-> o.price, expo |-> o.expo, publishTime |-> t] :
                    o \in Observations,
                    t \in {StartTime - DefaultPriceMaxAge - 1, StartTime}}
    /\ balance = [t \in Tokens |-> 0]
    /\ approved = {}
    /\ events = [id \in AgentIds |-> NoEvents]
    /\ keeper = KeeperOff
    /\ last = NoCall

\* A call that reverts changes nothing but the recorded outcome.
Reverted(op, id, reason) ==
    /\ last' = Call(op, id, reason)
    /\ UNCHANGED <<registry, config, world, tokens, events>>

\* ------------------------------------------------- the swap registry
\* SafeERC20.safeApprove(router, max): reverts when the allowance is
\* already non-zero.
SafeApproveReverts(token) == token \in approved

NewAgent(caller, label, strategy, t) ==
    [owner |-> caller, ensNode |-> label, ensName |-> label,
     strategy |-> strategy, createdAt |-> t, totalExecutions |-> 0,
     exists |-> TRUE]

CreateAgentResultNoExistsCheck(agentId, strategy) ==
    IF ValidateStrategy(strategy) # "ok" THEN ValidateStrategy(strategy)
    ELSE IF SafeApproveReverts(strategy.tokenIn) THEN "ApproveFailed"
    ELSE "ok"

CreateAgentResult(agentId, strategy) ==
    IF agents[agentId].exists THEN "AgentExists"
    ELSE IF ValidateStrategy(strategy) # "ok" THEN ValidateStrategy(strategy)
    ELSE IF SafeApproveReverts(strategy.tokenIn) THEN "ApproveFailed"
    ELSE "ok"

CreateAgent(agentId, caller, label, strategy) ==
    /\ contract = "swap"
    /\ LET r == CreateAgentResult(agentId, strategy) IN
       IF r # "ok" THEN Reverted("createAgent", agentId, r)
       ELSE /\ agents' = [agents EXCEPT
                             ![agentId] = NewAgent(caller, label, strategy, now)]
            /\ userAgents' = [userAgents EXCEPT
                                 ![caller] = Append(@, agentId)]
            /\ allAgentIds' = Append(allAgentIds, agentId)
            /\ agentCount' = agentCount + 1
            /\ approved' = approved \cup {strategy.tokenIn}
            /\ last' = Call("createAgent", agentId, "ok")
            /\ UNCHANGED <<ensNodeToAgentId, config, world, balance, events>>

\* The state written by a successful swap (lines 346-347).
CommitSwapNoStamp(agent, t) ==
    [agent EXCEPT !.totalExecutions = @ + 1]

CommitSwapTwice(agent, t) ==
    [agent EXCEPT !.strategy.lastExecuted = t,
                  !.totalExecutions = @ + 2]

CommitSwap(agent, t) ==
    [agent EXCEPT !.strategy.lastExecuted = t,
                  !.totalExecutions = @ + 1]

\* executeSwap up to the router call: "ok" or the revert reason. entered
\* is the ReentrancyGuard status at the call (nonReentrant).
ExecuteSwapCheck(agentId, entered) ==
    LET agent == agents[agentId]
        strategy == agent.strategy
        bal == balance[strategy.tokenIn]
    IN  IF entered THEN "ReentrantCall"
        ELSE IF ~agent.exists THEN "AgentNotFound"
        ELSE IF StrategyInactive(strategy) THEN "InvalidStrategy"
        ELSE IF CooldownOverflows(strategy) THEN "Panic"
        ELSE IF CooldownActive(strategy, now) THEN "CooldownActive"
        ELSE IF ~PythFresh(strategy.priceFeedId, priceMaxAge, now)
            THEN "StalePrice"
        ELSE IF ~ConvertPrice(pyth.price, pyth.expo).ok
            THEN "InvalidPrice"
        ELSE IF ~ExecuteSwapTriggered(strategy,
                    ConvertPrice(pyth.price, pyth.expo).value)
            THEN "TriggerNotMet"
        ELSE IF InsufficientBalance(strategy, bal) THEN "InsufficientBalance"
        ELSE "ok"

\* The agent record after the try/catch around oneInchRouter.swap.
AfterSwapNoRollback(agent, swapOk, t) == CommitSwap(agent, t)

AfterSwap(agent, swapOk, t) ==
    IF swapOk THEN CommitSwap(agent, t) ELSE agent

ExecuteSwap(agentId, swapOk, returnAmount) ==
    /\ contract = "swap"
    /\ LET r == ExecuteSwapCheck(agentId, FALSE)
           strategy == agents[agentId].strategy
           amount == SwapAmount(strategy, balance[strategy.tokenIn])
       IN
       IF r # "ok" THEN Reverted("executeSwap", agentId, r)
       ELSE /\ agents' = [agents EXCEPT
                             ![agentId] = AfterSwap(@, swapOk, now)]
            /\ IF swapOk
                 THEN /\ events[agentId].n < MaxExec
                      /\ balance[strategy.tokenOut] + returnAmount
                             <= MaxBalance
                      /\ balance' = [balance EXCEPT
                             ![strategy.tokenIn] = @ - amount,
                             ![strategy.tokenOut] = @ + returnAmount]
                      /\ events' = [events EXCEPT
                             ![agentId] = SwapExecuted(@, strategy,
                                 ConvertPrice(pyth.price, pyth.expo).value,
                                 now)]
                      /\ last' = Call("executeSwap", agentId, "ok")
                 ELSE /\ UNCHANGED <<balance, events>>
                      /\ last' = Call("executeSwap", agentId, "SwapFailed")
            /\ UNCHANGED <<userAgents, allAgentIds, agentCount,
                           ensNodeToAgentId, config, world, approved>>

\* performUpkeep holds the ReentrancyGuard while it calls
\* this.executeSwap, and swallows every failure of that call.
PerformUpkeep(agentIds) ==
    /\ contract = "swap"
    /\ \A i \in 1..Len(agentIds) :
           ExecuteSwapCheck(agentIds[i], TRUE) # "ok"
    /\ last' = Call("performUpkeep", 0, "ok")
    /\ UNCHANGED <<registry, config, world, tokens, events>>

UpdateStrategyResult(agentId, caller, newStrategy) ==
    LET agent == agents[agentId] IN
    IF ~agent.exists THEN "AgentNotFound"
    ELSE IF agent.owner # caller THEN "Unauthorized"
    ELSE IF ValidateStrategy(newStrategy) # "ok"
        THEN ValidateStrategy(newStrategy)
    ELSE IF /\ agent.strategy.tokenIn # newStrategy.tokenIn
            /\ SafeApproveReverts(newStrategy.tokenIn)
        THEN "ApproveFailed"
    ELSE "ok"

\* agent.strategy = newStrategy
ReplaceStrategyKeepActive(agent, newStrategy) ==
    [agent EXCEPT !.strategy =
        [newStrategy EXCEPT !.isActive = agent.strategy.isActive]]

ReplaceStrategy(agent, newStrategy) ==
    [agent EXCEPT !.strategy = newStrategy]

UpdateStrategy(agentId, caller, newStrategy) ==
    /\ contract = "swap"
    /\ LET r == UpdateStrategyResult(agentId, caller, newStrategy) IN
       IF r # "ok" THEN Reverted("updateStrategy", agentId, r)
       ELSE /\ agents' = [agents EXCEPT
                             ![agentId] = ReplaceStrategy(@, newStrategy)]
            /\ approved' = approved \cup {newStrategy.tokenIn}
            /\ last' = Call("updateStrategy", agentId, "ok")
            /\ UNCHANGED <<userAgents, allAgentIds, agentCount,
                           ensNodeToAgentId, config, world, balance, events>>

OwnerCheckExistsOnly(agentId, caller) ==
    IF ~agents[agentId].exists THEN "AgentNotFound" ELSE "ok"

OwnerCheck(agentId, caller) ==
    IF ~agents[agentId].exists THEN "AgentNotFound"
    ELSE IF agents[agentId].owner # caller THEN "Unauthorized"
    ELSE "ok"

Deposit(agentId, caller, token, amount) ==
    /\ contract = "swap"
    /\ LET r == OwnerCheck(agentId, caller) IN
       IF r # "ok" THEN Reverted("deposit", agentId, r)
       ELSE /\ balance[token] + amount <= MaxBalance
            /\ balance' = [balance EXCEPT ![token] = @ + amount]
            /\ last' = Call("deposit", agentId, "ok")
            /\ UNCHANGED <<registry, config, world, approved, events>>

Withdraw(agentId, caller, token, amount) ==
    /\ contract = "swap"
    /\ LET r == OwnerCheck(agentId, caller) IN
       IF r # "ok" THEN Reverted("withdraw", agentId, r)
       ELSE IF balance[token] < amount
           THEN Reverted("withdraw", agentId, "TransferFailed")
       ELSE /\ balance' = [balance EXCEPT ![token] = @ - amount]
            /\ last' = Call("withdraw", agentId, "ok")
            /\ UNCHANGED <<registry, config, world, approved, events>>

\* activateAgent and deactivateAgent read the same in both registries.
SetActiveToggle(agent, flag) ==
    [agent EXCEPT !.strategy.isActive = ~@]

SetActive(agent, flag) == [agent EXCEPT !.strategy.isActive = flag]

ActivateAgent(agentId, caller) ==
    /\ LET r == OwnerCheck(agentId, caller) IN
       IF r # "ok" THEN Reverted("activateAgent", agentId, r)
       ELSE /\ agents' = [agents EXCEPT ![agentId] = SetActive(@, TRUE)]
            /\ last' = Call("activateAgent", agentId, "ok")
            /\ UNCHANGED <<userAgents, allAgentIds, agentCount,
                           ensNodeToAgentId, config, world, tokens, events>>

DeactivateAgent(agentId, caller) ==
    /\ LET r == OwnerCheck(agentId, caller) IN
       IF r # "ok" THEN Reverted("deactivateAgent", agentId, r)
       ELSE /\ agents' = [agents EXCEPT ![agentId] = SetActive(@, FALSE)]
            /\ last' = Call("deactivateAgent", agentId, "ok")
            /\ UNCHANGED <<userAgents, allAgentIds, agentCount,
                           ensNodeToAgentId, config, world, tokens, events>>

\* --------------------------------------------- the trigger-only registry
TriggerCreateAgentResult(agentId, strategy) ==
    IF agents[agentId].exists THEN "AgentAlreadyExists"
    ELSE ValidateTriggerStrategy(strategy)

TriggerCreateAgent(agentId, caller, label, strategy) ==
    /\ contract = "trigger"
    /\ LET r == TriggerCreateAgentResult(agentId, strategy) IN
       IF r # "ok" THEN Reverted("createAgent", agentId, r)
       ELSE /\ agents' = [agents EXCEPT
                             ![agentId] = NewAgent(caller, label, strategy, now)]
            /\ userAgents' = [userAgents EXCEPT
                                 ![caller] = Append(@, agentId)]
            /\ ensNodeToAgentId' = [ensNodeToAgentId EXCEPT
                                       ![label] = agentId]
            /\ agentCount' = agentCount + 1
            /\ last' = Call("createAgent", agentId, "ok")
            /\ UNCHANGED <<allAgentIds, config, world, tokens, events>>

TriggerUpdateStrategyResult(agentId, caller, newStrategy) ==
    LET agent == agents[agentId] IN
    IF ~agent.exists THEN "AgentNotFound"
    ELSE IF agent.owner # caller THEN "Unauthorized"
    ELSE ValidateTriggerStrategy(newStrategy)

TriggerUpdateStrategy(agentId, caller, newStrategy) ==
    /\ contract = "trigger"
    /\ LET r == TriggerUpdateStrategyResult(agentId, caller, newStrategy) IN
       IF r # "ok" THEN Reverted("updateStrategy", agentId, r)
       ELSE /\ agents' = [agents EXCEPT
                             ![agentId] = ReplaceStrategy(@, newStrategy)]
            /\ last' = Call("updateStrategy", agentId, "ok")
            /\ UNCHANGED <<userAgents, allAgentIds, agentCount,
                           ensNodeToAgentId, config, world, tokens, events>>

\* pyth.getUpdateFee(updateData): one unit per update in the payload
UpdateFee(updateData) == Len(updateData)

\* The oracle's observation once updatePriceFeeds(updateData) has run.
PythAfter(updateData, t) ==
    IF Len(updateData) = 0 THEN pyth
    ELSE [price |-> updateData[Len(updateData)].price,
          expo |-> updateData[Len(updateData)].expo,
          publishTime |-> t]

\* checkAndExecuteTrigger up to the commit: "ok" or the revert reason
CheckAndExecuteTriggerCheck(agentId, updateData, msgValue) ==
    LET agent == agents[agentId]
        strategy == agent.strategy
        price == PythAfter(updateData, now)
    IN  IF ~agent.exists THEN "AgentNotFound"
        ELSE IF StrategyInactive(strategy) THEN "StrategyNotActive"
        ELSE IF Len(updateData) > 0 /\ msgValue < UpdateFee(updateData)
            THEN "InsufficientFee"
        ELSE IF ~( /\ PythKnows(strategy.priceFeedId)
                   /\ now - price.publishTime <= TriggerPriceMaxAge )
            THEN "StalePrice"
        ELSE IF price.publishTime = 0 THEN "PriceNotUpdated"
        ELSE IF CooldownOverflows(strategy) THEN "Panic"
        ELSE IF CooldownActive(strategy, now) THEN "CooldownNotExpired"
        ELSE IF ~ConvertPriceToUint(price.price, price.expo).ok
            THEN "InvalidPrice"
        ELSE IF ~TriggerMet(strategy,
                    ConvertPriceToUint(price.price, price.expo).value)
            THEN "TriggerNotMet"
        ELSE "ok"

\* agent.strategy.lastExecuted = block.timestamp (line 1066)
CommitTrigger(agent, t) == [agent EXCEPT !.strategy.lastExecuted = t]

\* The ether of the call: fee goes to the oracle (lines 1036-1040), refund
\* back to the caller (lines 1077-1082), kept stays with the registry.
EtherFlowsNoRefund(updateData, msgValue) ==
    LET fee == IF Len(updateData) > 0 THEN UpdateFee(updateData) ELSE 0
    IN  [value |-> msgValue, fee |-> fee, refund |-> 0,
         kept |-> msgValue - fee]

EtherFlows(updateData, msgValue) ==
    LET fee == IF Len(updateData) > 0 THEN UpdateFee(updateData) ELSE 0
        refund == IF Len(updateData) > 0 /\ msgValue > UpdateFee(updateData)
                      THEN msgValue - UpdateFee(updateData)
                      ELSE 0
    IN  [value |-> msgValue, fee |-> fee, refund |-> refund,
         kept |-> msgValue - fee - refund]

\* The record of a committed checkAndExecuteTrigger: the call, the number
\* of updates in its payload and its ether flows.
TriggerCall(agentId, updateData, msgValue) ==
    [op |-> "checkAndExecuteTrigger", id |-> agentId, result |-> "ok",
     updates |-> Len(updateData), ether |-> EtherFlows(updateData, msgValue)]

\* refundOk: whether the caller accepts the refund (require(success))
CheckAndExecuteTrigger(agentId, updateData, msgValue, refundOk) ==
    /\ contract = "trigger"
    /\ LET r == CheckAndExecuteTriggerCheck(agentId, updateData, msgValue) IN
       IF r # "ok" THEN Reverted("checkAndExecuteTrigger", agentId, r)
       ELSE IF EtherFlows(updateData, msgValue).refund > 0 /\ ~refundOk
           THEN Reverted("checkAndExecuteTrigger", agentId, "RefundFailed")
       ELSE /\ events[agentId].n < MaxExec
            /\ agents' = [agents EXCEPT
                             ![agentId] = CommitTrigger(@, now)]
            /\ pyth' = PythAfter(updateData, now)
            /\ events' = [events EXCEPT
                             ![agentId] = TriggerExecuted(@,
                                 agents[agentId].strategy,
                                 PythAfter(updateData, now), now)]
            /\ last' = TriggerCall(agentId, updateData, msgValue)
            /\ UNCHANGED <<userAgents, allAgentIds, agentCount,
                           ensNodeToAgentId, config, contract, now, keeper,
                           tokens>>

\* _removeFromUserAgents: swap the first match with the last entry, pop
RemoveFromUserAgentsPopOnly(agentIds, agentId) ==
    IF \E i \in 1..Len(agentIds) : agentIds[i] = agentId
        THEN SubSeq(agentIds, 1, Len(agentIds) - 1)
        ELSE agentIds

RemoveFromUserAgents(agentIds, agentId) ==
    LET hits == {i \in 1..Len(agentIds) : agentIds[i] = agentId} IN
    IF hits = {} THEN agentIds
    ELSE LET i == CHOOSE k \in hits : \A j \in hits : k <= j
             moved == [agentIds EXCEPT ![i] = agentIds[Len(agentIds)]]
         IN  SubSeq(moved, 1, Len(agentIds) - 1)

TransferAgentOwnershipResult(agentId, caller, newOwner) ==
    IF newOwner = ZeroAddress THEN "InvalidNewOwner"
    ELSE OwnerCheck(agentId, caller)

\* userAgents after the removal from the caller's list and the push to
\* newOwner's list
TransferIndex(index, agentId, caller, newOwner) ==
    LET removed == [index EXCEPT
                       ![caller] = RemoveFromUserAgents(@, agentId)]
    IN  [removed EXCEPT ![newOwner] = Append(@, agentId)]

TransferAgentOwnership(agentId, caller, newOwner) ==
    /\ contract = "trigger"
    /\ LET r == TransferAgentOwnershipResult(agentId, caller, newOwner) IN
       IF r # "ok" THEN Reverted("transferAgentOwnership", agentId, r)
       ELSE /\ userAgents' = TransferIndex(userAgents, agentId, caller,
                                           newOwner)
            /\ agents' = [agents EXCEPT ![agentId].owner = newOwner]
            /\ last' = Call("transferAgentOwnership", agentId, "ok")
            /\ UNCHANGED <<allAgentIds, agentCount, ensNodeToAgentId,
                           config, world, tokens, events>>

\* setMaxAgentsPerCheck: no access control
SetMaxAgentsPerCheck(max) ==
    /\ contract = "swap"
    /\ maxAgentsPerCheck' = max
    /\ last' = Call("setMaxAgentsPerCheck", 0, "ok")
    /\ UNCHANGED <<registry, priceMaxAge, world, tokens, events>>

\* setPriceMaxAge: no access control
SetPriceMaxAge(age) ==
    /\ contract = "swap"
    /\ priceMaxAge' = age
    /\ last' = Call("setPriceMaxAge", 0, "ok")
    /\ UNCHANGED <<registry, maxAgentsPerCheck, world, tokens, events>>

\* ------------------------------------------------------ the environment
\* a new block: block.timestamp advances
Tick ==
    /\ now < StartTime + MaxTicks
    /\ now' = now + 1
    /\ last' = NoCall
    /\ UNCHANGED <<registry, config, contract, pyth, keeper, tokens, events>>

\* the oracle network publishes a new observation of the feed
PythPublish(price, expo) ==
    /\ pyth' = [price |-> price, expo |-> expo, publishTime |-> now]
    /\ pyth' # pyth
    /\ last' = NoCall
    /\ UNCHANGED <<registry, config, contract, now, keeper, tokens, events>>

\* ------------------------------------------------------ view functions
\* One iteration of checkUpkeep's loop: "skip", "ready", "revert" when
\* _convertPrice fails inside the try's success block (which the catch
\* clause does not cover), or "panic" when the cooldown sum overflows.
CheckUpkeepEntryOnce(agentId) ==
    IF last.op = "checkUpkeep" THEN "skip" ELSE "ready"

CheckUpkeepEntry(agentId) ==
    LET strategy == agents[agentId].strategy
        bal == balance[strategy.tokenIn]
    IN  IF StrategyInactive(strategy) THEN "skip"
        ELSE IF CooldownOverflows(strategy) THEN "panic"
        ELSE IF CooldownActive(strategy, now) THEN "skip"
        ELSE IF CheckUpkeepUnfunded(strategy, bal) THEN "skip"
        ELSE IF ~PythFresh(strategy.priceFeedId, priceMaxAge, now)
            THEN "skip"
        ELSE IF ~ConvertPrice(pyth.price, pyth.expo).ok THEN "revert"
        ELSE IF CheckUpkeepTriggered(strategy,
                    ConvertPrice(pyth.price, pyth.expo).value)
            THEN "ready"
        ELSE "skip"

\* The ids checkUpkeep examines: the first maxCheck of allAgentIds.
ExaminedAll == allAgentIds

Examined ==
    SubSeq(allAgentIds, 1,
           IF Len(allAgentIds) < maxAgentsPerCheck
               THEN Len(allAgentIds) ELSE maxAgentsPerCheck)

\* checkUpkeep: the candidate list, or a revert
CheckUpkeep ==
    LET failing == {i \in 1..Len(Examined) :
                       CheckUpkeepEntry(Examined[i]) \in {"revert", "panic"}}
        first == CHOOSE i \in failing : \A j \in failing : i <= j
    IN
    IF failing # {}
        THEN IF CheckUpkeepEntry(Examined[first]) = "panic"
                 THEN Revert("Panic") ELSE Revert("InvalidPrice")
    ELSE LET Ready(id) == CheckUpkeepEntry(id) = "ready"
         IN  Value(SelectSeq(Examined, Ready))

\* checkUpkeep's return values, lines 251-260: (true, the packed ready
\* agents) when count > 0, (false, "") otherwise
UpkeepNeeded(readyAgents) == Len(readyAgents) > 0

PerformData(readyAgents) ==
    IF Len(readyAgents) > 0 THEN readyAgents ELSE <<>>

\* A call of checkUpkeep (a view: it writes nothing); the outcome is kept
\* in "last" with the two return values.
CheckUpkeepCall ==
    /\ contract = "swap"
    /\ last' = IF CheckUpkeep.ok
                   THEN [op |-> "checkUpkeep", id |-> 0, result |-> "ok",
                         upkeepNeeded |-> UpkeepNeeded(CheckUpkeep.value),
                         performData |-> PerformData(CheckUpkeep.value)]
                   ELSE Call("checkUpkeep", 0, CheckUpkeep.value)
    /\ UNCHANGED <<registry, config, world, tokens, events>>

\* checkTrigger (swap registry): (met, currentPrice, triggerPrice)
CheckTrigger(agentId) ==
    LET agent == agents[agentId]
        priceValue == ConvertPrice(pyth.price, pyth.expo)
    IN  IF ~agent.exists THEN Revert("AgentNotFound")
        ELSE IF ~PythKnows(agent.strategy.priceFeedId)
            THEN Revert("PriceFeedNotFound")
        ELSE IF ~priceValue.ok THEN priceValue
        ELSE Value([met |-> CheckTriggerTriggered(agent.strategy,
                                                  priceValue.value),
                    currentPrice |-> priceValue.value,
                    triggerPrice |-> agent.strategy.triggerPrice])

\* checkTrigger (trigger-only registry)
TriggerCheckTrigger(agentId) ==
    LET agent == agents[agentId]
        priceValue == ConvertPriceToUint(pyth.price, pyth.expo)
    IN  IF ~agent.exists THEN Revert("AgentNotFound")
        ELSE IF ~PythKnows(agent.strategy.priceFeedId)
            THEN Revert("PriceFeedNotFound")
        ELSE IF ~priceValue.ok THEN priceValue
        ELSE Value([met |-> CheckTriggerMet(agent.strategy, priceValue.value),
                    currentPrice |-> priceValue.value,
                    triggerPrice |-> agent.strategy.triggerPrice,
                    triggerAbove |-> agent.strategy.triggerAbove])

\* getAgent: the stored record, or the revert reason
GetAgent(agentId) ==
    IF ~agents[agentId].exists THEN Revert("AgentNotFound")
    ELSE Value(agents[agentId])

\* ------------------------------------------------------------ the keeper
\* src/contracts/1InchSwap/keeper_bot_for_swap.ts. Every await of the
\* keeper is one step; the errors thrown by the RPC provider, Hermes and
\* axios are Error objects. The keeper only reads the chain: the step
\* after the quote, this.contract.pyth.getUpdateFee, throws a TypeError
\* (the ABI has no pyth, so contract.pyth has no getUpdateFee), and
\* executeAgent never gets as far as sending executeSwap.

\* The keeper once executeAgent has returned for the candidate at hand
\* (by return, or through its catch clause): the for loop of
\* checkAndExecute goes to the next candidate, or the cycle ends.
AfterCandidateAbort(k, outcome) ==
    LET d == Append(k.done, [id |-> k.agentIds[k.next], outcome |-> outcome])
    IN  IF k.next < Len(k.agentIds) /\ outcome # "error"
            THEN [k EXCEPT !.done = d, !.next = @ + 1, !.step = "getAgent"]
            ELSE [k EXCEPT !.done = d, !.pc = "sleep", !.step = "none"]

AfterCandidate(k, outcome) ==
    LET d == Append(k.done, [id |-> k.agentIds[k.next], outcome |-> outcome])
    IN  IF k.next < Len(k.agentIds)
            THEN [k EXCEPT !.done = d, !.next = @ + 1, !.step = "getAgent"]
            ELSE [k EXCEPT !.done = d, !.pc = "sleep", !.step = "none"]

\* A step of the keeper changes nothing on the chain.
KeeperStep ==
    /\ last' = NoCall
    /\ UNCHANGED <<registry, config, contract, now, pyth, tokens, events>>

\* start(): isRunning = true; run() enters its first cycle
KeeperStart ==
    /\ contract = "swap"
    /\ keeper.pc = "off"
    /\ keeper' = [KeeperOff EXCEPT !.isRunning = TRUE, !.pc = "checkUpkeep"]
    /\ KeeperStep

\* checkAndExecute up to the for loop: a failed call is caught (line 127)
\* and ends the cycle, as does upkeepNeeded = false.
KeeperCheckUpkeep(rpcOk) ==
    /\ keeper.pc = "checkUpkeep"
    /\ keeper' =
          IF rpcOk /\ CheckUpkeep.ok /\ UpkeepNeeded(CheckUpkeep.value)
              THEN [keeper EXCEPT !.pc = "executeAgent",
                                  !.agentIds = PerformData(CheckUpkeep.value),
                                  !.next = 1, !.step = "getAgent",
                                  !.done = <<>>]
              ELSE [keeper EXCEPT !.pc = "sleep", !.agentIds = <<>>,
                                  !.next = 0, !.step = "none", !.done = <<>>]
    /\ KeeperStep

\* executeAgent: await this.contract.getAgent(agentId)
KeeperGetAgent(rpcOk) ==
    /\ keeper.pc = "executeAgent" /\ keeper.step = "getAgent"
    /\ keeper' =
          IF rpcOk /\ GetAgent(keeper.agentIds[keeper.next]).ok
              THEN [keeper EXCEPT !.step = "fetchPriceUpdateData"]
              ELSE AfterCandidate(keeper, "error")
    /\ KeeperStep

\* executeAgent: await this.fetchPriceUpdateData(...), which rethrows
KeeperFetchPriceUpdateData(fetched) ==
    /\ keeper.pc = "executeAgent" /\ keeper.step = "fetchPriceUpdateData"
    /\ keeper' =
          IF fetched THEN [keeper EXCEPT !.step = "get1inchSwapData"]
          ELSE AfterCandidate(keeper, "error")
    /\ KeeperStep

\* executeAgent: await this.get1inchSwapData(...), null on any failure;
\* without swap data executeAgent returns
KeeperGet1inchSwapData(quoted) ==
    /\ keeper.pc = "executeAgent" /\ keeper.step = "get1inchSwapData"
    /\ keeper' =
          IF quoted THEN [keeper EXCEPT !.step = "getUpdateFee"]
          ELSE AfterCandidate(keeper, "skipped")
    /\ KeeperStep

\* executeAgent: this.contract.pyth.getUpdateFee(...) throws a TypeError
KeeperGetUpdateFee ==
    /\ keeper.pc = "executeAgent" /\ keeper.step = "getUpdateFee"
    /\ keeper' = AfterCandidate(keeper, "error")
    /\ KeeperStep

\* run(): the sleep after a cycle is over; the loop condition is read
KeeperSleepGivesUp ==
    /\ keeper.pc = "sleep"
    /\ keeper' = IF /\ keeper.isRunning
                    /\ \A i \in 1..Len(keeper.done) :
                           keeper.done[i].outcome # "error"
                     THEN [keeper EXCEPT !.pc = "checkUpkeep"]
                     ELSE KeeperOff
    /\ KeeperStep

KeeperSleep ==
    /\ keeper.pc = "sleep"
    /\ keeper' = IF keeper.isRunning
                     THEN [keeper EXCEPT !.pc = "checkUpkeep"]
                     ELSE KeeperOff
    /\ KeeperStep

\* stop(): isRunning = false
KeeperStop ==
    /\ keeper.isRunning
    /\ keeper' = [keeper EXCEPT !.isRunning = FALSE]
    /\ KeeperStep

\* main's handlers of SIGINT and SIGTERM: keeper.stop(); process.exit(0).
\* The process ends at once, whatever the keeper is awaiting.
KeeperSignal ==
    /\ keeper.pc \notin {"off", "exited"}
    /\ keeper' = [keeper EXCEPT !.isRunning = FALSE, !.pc = "exited"]
    /\ KeeperStep

\* The start/stop protocol of the keeper object, whoever calls it.
\* keeper.loops holds every invocation of run(): "none" (not begun, or
\* returned), "cycle" (awaiting checkAndExecute) or "sleep" (awaiting the
\* interval).

\* start(): isRunning = true; this.run() - with no look at isRunning or at
\* a loop already alive
StartLoop ==
    /\ contract = "swap"
    /\ \E i \in 1..MaxLoops :
           /\ keeper.loops[i] = "none"
           /\ \A j \in 1..(i - 1) : keeper.loops[j] # "none"
           /\ keeper' = [keeper EXCEPT !.isRunning = TRUE,
                                       !.loops[i] = "cycle"]
    /\ KeeperStep

\* run(): checkAndExecute returns (its errors are caught); the sleep begins
LoopCheckAndExecute(i) ==
    /\ keeper.loops[i] = "cycle"
    /\ keeper' = [keeper EXCEPT !.loops[i] = "sleep"]
    /\ KeeperStep

\* run(): the sleep ends and the loop condition is read
LoopSleep(i) ==
    /\ keeper.loops[i] = "sleep"
    /\ keeper' = [keeper EXCEPT !.loops[i] =
                      IF keeper.isRunning THEN "cycle" ELSE "none"]
    /\ KeeperStep

\* stop(): isRunning = false
StopLoops ==
    /\ contract = "swap"
    /\ keeper.isRunning
    /\ keeper' = [keeper EXCEPT !.isRunning = FALSE]
    /\ KeeperStep

\* The price cache of the keeper. hermes is what
\* hermesClient.getLatestPriceUpdates does: "fail" (it throws), or the
\* payload it returns. The result is what fetchPriceUpdateData returns or
\* throws, whether Hermes was asked, and the cache it leaves.
HermesAnswers == {"fail", "payload1", "payload2"}

FetchPriceUpdateDataInclusive(priceCache, priceFeedId, t, hermes) ==
    LET cached == priceCache[priceFeedId] IN
    IF cached # NoEntry /\ t - cached.timestamp <= CacheTtl
        THEN [result |-> Value(cached.data), fetched |-> FALSE,
              priceCache |-> priceCache]
    ELSE IF hermes = "fail"
        THEN [result |-> Revert("error"), fetched |-> TRUE,
              priceCache |-> priceCache]
    ELSE [result |-> Value(hermes), fetched |-> TRUE,
          priceCache |-> [priceCache EXCEPT ![priceFeedId] =
                              [data |-> hermes, timestamp |-> t]]]

FetchPriceUpdateData(priceCache, priceFeedId, t, hermes) ==
    LET cached == priceCache[priceFeedId] IN
    IF cached # NoEntry /\ t - cached.timestamp < CacheTtl
        THEN [result |-> Value(cached.data), fetched |-> FALSE,
              priceCache |-> priceCache]
    ELSE IF hermes = "fail"
        THEN [result |-> Revert("error"), fetched |-> TRUE,
              priceCache |-> priceCache]
    ELSE [result |-> Value(hermes), fetched |-> TRUE,
          priceCache |-> [priceCache EXCEPT ![priceFeedId] =
                              [data |-> hermes, timestamp |-> t]]]

\* One call of fetchPriceUpdateData; the outcome is kept in "last".
FetchPriceUpdateDataCall(priceFeedId, hermes) ==
    /\ contract = "swap"
    /\ LET r == FetchPriceUpdateData(keeper.priceCache, priceFeedId,
                                     keeper.clock, hermes)
       IN  /\ keeper' = [keeper EXCEPT !.priceCache = r.priceCache]
           /\ last' = [op |-> "fetchPriceUpdateData", id |-> priceFeedId,
                       result |-> IF r.result.ok THEN "ok" ELSE "error",
                       data |-> r.result.value, fetched |-> r.fetched]
    /\ UNCHANGED <<registry, config, contract, now, pyth, tokens, events>>

\* Time passes on the keeper's machine.
ClockAdvance ==
    /\ contract = "swap"
    /\ keeper.clock + ClockStep <= MaxClock
    /\ keeper' = [keeper EXCEPT !.clock = @ + ClockStep]
    /\ KeeperStep

\* ------------------------------------------------ the monitoring service
\* src/frontend/lib/agent/agent-monitor.ts. The service only reads the
\* registry. getOk and checkOk say whether the RPC read went through;
\* fetched is what fetchBinaryPriceUpdates did: "data", "empty" or "throw".
FetchOutcomes == {"data", "empty", "throw"}

\* getAgentDetails: the agent, or null (ok = FALSE) when the read fails
GetAgentDetails(agentId, getOk) ==
    IF getOk THEN GetAgent(agentId) ELSE Revert("RpcError")

\* checkAgentTrigger: the first two values of checkTrigger, or
\* (false, 0) when the read fails
CheckAgentTrigger(agentId, checkOk) ==
    LET r == IF contract = "swap" THEN CheckTrigger(agentId)
                                  ELSE TriggerCheckTrigger(agentId)
    IN  IF checkOk /\ r.ok
            THEN [met |-> r.value.met, currentPrice |-> r.value.currentPrice]
            ELSE [met |-> FALSE, currentPrice |-> 0]

\* executeTrigger: every path returns success = false
ExecuteTrigger(agent, fetched) ==
    IF fetched = "throw"
        THEN [success |-> FALSE, error |-> "Execution failed"]
    ELSE IF fetched = "empty"
        THEN [success |-> FALSE,
              error |-> "Failed to fetch price update data"]
    ELSE [success |-> FALSE,
          error |-> "Automatic execution requires a funded wallet"]

\* monitorAgent; an absent error is the empty string
MonitorAgent(agentId, getOk, checkOk, fetched) ==
    LET agent == GetAgentDetails(agentId, getOk)
        trigger == CheckAgentTrigger(agentId, checkOk)
    IN  IF ~agent.ok \/ ~agent.value.exists
               \/ ~agent.value.strategy.isActive
            THEN [agentId |-> agentId, triggerMet |-> FALSE,
                  currentPrice |-> 0, executed |-> FALSE,
                  error |-> "Agent not found or inactive"]
        ELSE IF ~trigger.met
            THEN [agentId |-> agentId, triggerMet |-> FALSE,
                  currentPrice |-> trigger.currentPrice,
                  executed |-> FALSE, error |-> ""]
        ELSE [agentId |-> agentId, triggerMet |-> TRUE,
              currentPrice |-> trigger.currentPrice,
              executed |-> ExecuteTrigger(agent.value, fetched).success,
              error |-> ExecuteTrigger(agent.value, fetched).error]

\* monitorAgents: the statistics over the results of monitorAgent
MonitorAgents(agentIds, getOk, checkOk, fetched) ==
    LET results == [i \in 1..Len(agentIds) |->
                        MonitorAgent(agentIds[i], getOk, checkOk, fetched)]
        Count(P(_)) == Cardinality({i \in 1..Len(agentIds) : P(results[i])})
        IsActive(r) == r.error = ""
        IsMet(r) == r.triggerMet
        IsExecuted(r) == r.executed
        IsError(r) == r.error # ""
    IN  [totalAgents |-> Len(agentIds),
         activeAgents |-> Count(IsActive),
         triggersMet |-> Count(IsMet),
         executed |-> Count(IsExecuted),
         errors |-> Count(IsError),
         results |-> results]

MonitorAgentCall(agentId, getOk, checkOk, fetched) ==
    /\ last' = [op |-> "monitorAgent", id |-> agentId, result |-> "ok",
                monitoring |-> MonitorAgent(agentId, getOk, checkOk, fetched)]
    /\ UNCHANGED <<registry, config, world, tokens, events>>

MonitorAgentsCall(agentIds, getOk, checkOk, fetched) ==
    /\ last' = [op |-> "monitorAgents", id |-> 0, result |-> "ok",
                stats |-> MonitorAgents(agentIds, getOk, checkOk, fetched)]
    /\ UNCHANGED <<registry, config, world, tokens, events>>

\* ------------------------------------------------------------- inputs
Strategy(feed, trigger, above, tokenIn, tokenOut, amountIn, active,
         lastExecuted, cooldown) ==
    [priceFeedId |-> feed, triggerPrice |-> trigger, triggerAbove |-> above,
     tokenIn |-> tokenIn, tokenOut |-> tokenOut, amountIn |-> amountIn,
     minReturnAmount |-> 0, isActive |-> active,
     lastExecuted |-> lastExecuted, cooldownPeriod |-> cooldown]

\* The strategies callers submit: a base strategy and its one-field
\* variations (direction, amount, activity, lastExecuted, cooldown; the
\* last one has a cooldown that ends one second after StartTime).
ExecStrategies ==
    {Strategy(1, 2, TRUE, 1, 2, 1, TRUE, 0, 0),
     Strategy(1, 2, FALSE, 1, 2, 1, TRUE, 0, 0),
     Strategy(1, 2, TRUE, 1, 2, 0, TRUE, 0, 0),
     Strategy(1, 2, TRUE, 1, 2, 1, FALSE, 0, 0),
     Strategy(1, 2, TRUE, 1, 2, 1, TRUE, StartTime + 1, 0),
     Strategy(1, 2, TRUE, 1, 2, 1, TRUE, 0, 2),
     Strategy(1, 2, TRUE, 1, 2, 1, TRUE, 0, StartTime + 1)}

InvalidStrategies ==
    {Strategy(0, 2, TRUE, 1, 2, 0, TRUE, 0, 0),
     Strategy(1, 0, TRUE, 1, 2, 0, TRUE, 0, 0),
     Strategy(1, 2, TRUE, 1, 1, 0, TRUE, 0, 0),
     Strategy(1, 2, TRUE, 0, 2, 0, TRUE, 0, 0),
     Strategy(2, 2, TRUE, 1, 2, 0, TRUE, 0, 0)}

UpdateDatas == {<<>>} \cup {<<o>> : o \in Observations}

ExecIds == {1}

\* ---------------------------------------------------------------- Next
SwapNext(ids, creators, strategies, tokensIn) ==
    \/ \E id \in ids, caller \in creators, label \in Labels, s \in strategies :
              CreateAgent(id, caller, label, s)
    \/ \E id \in ids, swapOk \in BOOLEAN : ExecuteSwap(id, swapOk, 1)
    \/ \E ids2 \in {<<>>} \cup {<<a>> : a \in ids}
                  \cup {<<a, b>> : a, b \in ids} : PerformUpkeep(ids2)
    \/ \E id \in ids, caller \in Users, s \in strategies :
              UpdateStrategy(id, caller, s)
    \/ \E id \in ids, caller \in Users, token \in tokensIn :
              Deposit(id, caller, token, 1)
    \/ \E id \in ids, caller \in Users, token \in tokensIn :
              Withdraw(id, caller, token, 1)

TriggerNext(ids, creators, strategies) ==
    \/ \E id \in ids, caller \in creators, label \in Labels, s \in strategies :
              TriggerCreateAgent(id, caller, label, s)
    \/ \E id \in ids, caller \in Users, s \in strategies :
              TriggerUpdateStrategy(id, caller, s)
    \/ \E id \in ids, data \in UpdateDatas, value \in 0..1 :
              CheckAndExecuteTrigger(id, data, value, TRUE)
    \/ \E id \in ids, caller \in Users, newOwner \in Users \cup {ZeroAddress} :
              TransferAgentOwnership(id, caller, newOwner)

SharedNext(ids) ==
    \/ \E id \in ids, caller \in Users : ActivateAgent(id, caller)
    \/ \E id \in ids, caller \in Users : DeactivateAgent(id, caller)

EnvNext ==
    \/ Tick
    \/ \E o \in Observations : PythPublish(o.price, o.expo)

Next ==
    \/ SwapNext(ExecIds, {1}, ExecStrategies \cup InvalidStrategies, {1})
    \/ TriggerNext(ExecIds, {1}, ExecStrategies \cup InvalidStrategies)
    \/ SharedNext(ExecIds)
    \/ EnvNext

Spec == Init /\ [][Next]_vars


\* ---------------------------------------------------------------- claims
ExecOps == {"executeSwap", "checkAndExecuteTrigger"}
CooldownErrors == {"CooldownActive", "CooldownNotExpired"}

\* The step just taken is an execution attempt on agent a.
Attempted(a) == last'.op \in ExecOps /\ last'.id = a

\* The step just taken is a successful execution of agent a.
Committed(a) == Attempted(a) /\ last'.result = "ok"

\* The latest step committed an execution of agent a at this timestamp.
JustCommitted(a) ==
    /\ last.op \in ExecOps /\ last.id = a /\ last.result = "ok"
    /\ events[a].time = now

\* C1 (as stated): whatever the cooldownPeriod, an execution attempt that
\* directly follows a committed execution of the same agent at the same
\* timestamp does not commit.
C1_NeverTwoCommits ==
    [][\A a \in AgentIds :
          (JustCommitted(a) /\ Attempted(a)) => last'.result # "ok"]_vars

\* C1 (amended): for an agent whose cooldownPeriod is at least 1, an
\* execution attempt that directly follows a committed execution of the
\* same agent at the same timestamp fails and changes nothing: with the
\* cooldown error, or with the fee error when checkAndExecuteTrigger is
\* sent an update payload without its fee.
C1_CooldownRace ==
    [][\A a \in AgentIds :
          ( /\ JustCommitted(a)
            /\ agents[a].strategy.cooldownPeriod >= 1
            /\ Attempted(a) )
          => /\ last'.result \in CooldownErrors \cup {"InsufficientFee"}
             /\ (last'.op = "executeSwap" => last'.result = "CooldownActive")
             /\ agents' = agents
             /\ events' = events]_vars

\* A second attempt at the timestamp of a commit has hit the cooldown.
C1_Witness ==
    \E a \in AgentIds :
        /\ last.op \in ExecOps /\ last.id = a
        /\ last.result \in CooldownErrors
        /\ events[a].n = 1 /\ events[a].time = now
        /\ agents[a].strategy.lastExecuted = now
        /\ agents[a].strategy.cooldownPeriod >= 1

\* C2 (as stated): two successive successful executions of an agent at
\* times t1 < t2 are at least the cooldownPeriod in force at t2 apart.
C2_CooldownBetweenExecutions ==
    [][\A a \in AgentIds :
          (Committed(a) /\ events[a].n >= 1 /\ events[a].time < now)
          => now - events[a].time >= agents[a].strategy.cooldownPeriod]_vars

\* C3: when the router's swap reverts, executeSwap fails; it fails with
\* SwapFailed when every earlier check passed; and the agent's record
\* (lastExecuted, totalExecutions) and the event log are as before.
C3_SwapFailureAtomic ==
    [][\A a \in AgentIds :
          ExecuteSwap(a, FALSE, 1)
          => /\ last'.result # "ok"
             /\ (ExecuteSwapCheck(a, FALSE) = "ok"
                    => last'.result = "SwapFailed")
             /\ agents'[a].strategy.lastExecuted
                    = agents[a].strategy.lastExecuted
             /\ agents'[a].totalExecutions = agents[a].totalExecutions
             /\ events' = events]_vars

\* The router reverted under an agent that had executed before.
C3_Witness ==
    \E a \in AgentIds :
        /\ last = Call("executeSwap", a, "SwapFailed")
        /\ agents[a].totalExecutions >= 1

\* C4: in the swap registry totalExecutions is 0 at creation, rises by
\* exactly 1 in a successful executeSwap of the agent, and is changed by
\* no other step (failed attempts, performUpkeep, updateStrategy,
\* activateAgent, deactivateAgent, deposit, withdraw); so it equals the
\* number of execution events of the agent.
C4_TotalExecutions ==
    /\ [](\A a \in AgentIds :
              contract = "swap" => agents[a].totalExecutions = events[a].n)
    /\ [][\A a \in AgentIds :
              contract = "swap"
              => agents'[a].totalExecutions
                     = agents[a].totalExecutions
                           + (IF Committed(a) THEN 1 ELSE 0)]_vars

\* A failed attempt on an agent that has executed twice.
C4_Witness ==
    \E a \in AgentIds :
        /\ contract = "swap"
        /\ agents[a].totalExecutions = 2
        /\ last.op = "executeSwap" /\ last.id = a /\ last.result # "ok"

\* C5 (as stated): lastExecuted never decreases, and only a successful
\* execution of the agent changes it.
C5_LastExecutedMonotonic ==
    [][\A a \in AgentIds :
          /\ agents'[a].strategy.lastExecuted
                 >= agents[a].strategy.lastExecuted
          /\ (agents'[a].strategy.lastExecuted
                  # agents[a].strategy.lastExecuted => Committed(a))]_vars

\* C6 (as stated): a successful createAgent with strategy s is followed by
\* a getAgent that returns strategy s exactly, totalExecutions 0 and
\* lastExecuted 0.
C6_CreateGetRoundTrip ==
    [][\A a \in AgentIds, c \in Users, l \in Labels, s \in ExecStrategies :
          ( \/ CreateAgent(a, c, l, s) /\ CreateAgentResult(a, s) = "ok"
            \/ /\ TriggerCreateAgent(a, c, l, s)
               /\ TriggerCreateAgentResult(a, s) = "ok" )
          => /\ GetAgent(a)'.ok
             /\ GetAgent(a)'.value.strategy = s
             /\ GetAgent(a)'.value.totalExecutions = 0
             /\ GetAgent(a)'.value.strategy.lastExecuted = 0]_vars

\* C7: an agent whose isActive is false is in no checkUpkeep result, and
\* no execution attempt on it (executeSwap, checkAndExecuteTrigger) and no
\* performUpkeep commits: lastExecuted, totalExecutions and the event log
\* stay as they are.
C7_InactiveNeverExecutes ==
    /\ [](\A a \in AgentIds :
              (~agents[a].strategy.isActive /\ CheckUpkeep.ok)
              => a \notin SeqToSet(CheckUpkeep.value))
    /\ [][\A a \in AgentIds :
              ( /\ ~agents[a].strategy.isActive
                /\ (Attempted(a) \/ last'.op = "performUpkeep") )
              => /\ last'.op \in ExecOps => last'.result # "ok"
                 /\ agents'[a].strategy.lastExecuted
                        = agents[a].strategy.lastExecuted
                 /\ agents'[a].totalExecutions = agents[a].totalExecutions
                 /\ events'[a] = events[a]]_vars

\* An attempt on a deactivated agent that is otherwise ready (past its
\* cooldown, funded, fresh price, trigger met) was turned away.
C7_Witness ==
    \E a \in AgentIds :
        /\ last.op \in ExecOps /\ last.id = a
        /\ last.result \in {"InvalidStrategy", "StrategyNotActive"}
        /\ agents[a].exists /\ ~agents[a].strategy.isActive
        /\ CheckUpkeepEntry(a) = "skip"
        /\ ~CooldownActive(agents[a].strategy, now)
        /\ PythFresh(agents[a].strategy.priceFeedId, TriggerPriceMaxAge, now)
        /\ ConvertPrice(pyth.price, pyth.expo).ok
        /\ TriggerMet(agents[a].strategy,
                      ConvertPrice(pyth.price, pyth.expo).value)
        /\ (contract = "swap"
               => ~InsufficientBalance(agents[a].strategy,
                                       balance[agents[a].strategy.tokenIn]))

\* C8: an agent that exists keeps existing; a createAgent with its id
\* fails with the already-exists error and leaves agents, userAgents,
\* allAgentIds and agentCount as they are.
C8_ExistsForever ==
    [][\A a \in AgentIds :
          agents[a].exists
          => /\ agents'[a].exists
             /\ (last'.op = "createAgent" /\ last'.id = a)
                    => /\ last'.result
                           \in {"AgentExists", "AgentAlreadyExists"}
                       /\ UNCHANGED registry]_vars

\* A createAgent on an existing id was refused.
C8_Witness ==
    \E a \in AgentIds :
        /\ last.op = "createAgent" /\ last.id = a
        /\ last.result \in {"AgentExists", "AgentAlreadyExists"}
        /\ agents[a].exists

\* The decision of section 4.2: Met iff (triggerAbove and price >=
\* triggerPrice) or (not triggerAbove and price <= triggerPrice).
Met(strategy, price) ==
    \/ strategy.triggerAbove /\ price >= strategy.triggerPrice
    \/ ~strategy.triggerAbove /\ price <= strategy.triggerPrice

\* the normalized prices the observations give
NormalizedPrices ==
    {ConvertPrice(o.price, o.expo).value :
        o \in {x \in Observations : ConvertPrice(x.price, x.expo).ok}}

ScenarioC(T) ==
    [ZeroStrategy EXCEPT !.lastExecuted = T, !.cooldownPeriod = 3600]

\* The outcomes of an attempt that stopped before or at the cooldown check
\* of checkAndExecuteTrigger although the agent exists and is active.
UpToCooldown ==
    {"InsufficientFee", "StalePrice", "PriceNotUpdated", "CooldownNotExpired"}

\* An attempt on agent a meets the cooldown check as the rule
\* now >= lastExecuted + cooldownPeriod says.
CooldownByRule(a) ==
    LET s == agents[a].strategy
        eligible == now >= s.lastExecuted + s.cooldownPeriod
    IN  /\ last'.result \in CooldownErrors => ~eligible
        /\ last'.result = "ok" => eligible
        /\ (agents[a].exists /\ s.isActive /\ ~eligible)
               => IF last'.op = "executeSwap"
                      THEN last'.result = "CooldownActive"
                      ELSE last'.result \in UpToCooldown

\* C11 (as stated): an attempt passes the cooldown check exactly when
\* now >= lastExecuted + cooldownPeriod, and an attempt on an agent whose
\* lastExecuted is 0 never fails with the cooldown error.
C11_NeverExecutedEligible ==
    [][\A a \in AgentIds :
          Attempted(a)
          => /\ CooldownByRule(a)
             /\ agents[a].strategy.lastExecuted = 0
                    => last'.result \notin CooldownErrors]_vars

\* C11 (amended): an attempt passes the cooldown check exactly when
\* now >= lastExecuted + cooldownPeriod; with cooldownPeriod = 3600 and
\* lastExecuted = T the check fails at T + 3599 and passes at T + 3600; an
\* agent whose lastExecuted is 0 passes it exactly when cooldownPeriod <= now.
C11_CooldownBoundary ==
    /\ [](\A T \in {0, 1, now} :
              /\ CooldownActive(ScenarioC(T), T + 3599)
              /\ ~CooldownActive(ScenarioC(T), T + 3600))
    /\ [](\A a \in AgentIds :
              agents[a].strategy.lastExecuted = 0
              => (CooldownActive(agents[a].strategy, now)
                      <=> agents[a].strategy.cooldownPeriod > now))
    /\ [][\A a \in AgentIds : Attempted(a) => CooldownByRule(a)]_vars

\* An execution committed at exactly lastExecuted + cooldownPeriod, the
\* cooldownPeriod being as long as the clock's reading.
C11_Witness ==
    \E a \in AgentIds :
        /\ last.op \in ExecOps /\ last.id = a /\ last.result = "ok"
        /\ events[a].n = 1 /\ events[a].time = now
        /\ agents[a].strategy.cooldownPeriod = now

\* C12: executeSwap resolves the swap amount to amountIn when amountIn is
\* non-zero and to the tokenIn balance otherwise (amountIn = 0 with balance
\* 500 gives 500); it fails with InsufficientBalance only when the resolved
\* amount is 0 or exceeds the balance, and then changes nothing; it goes
\* on to the swap only otherwise, and a successful swap takes the resolved
\* amount from the tokenIn balance; checkUpkeep skips an agent under the
\* same condition.
C12_SwapAmount ==
    /\ [](SwapAmount([ZeroStrategy EXCEPT !.amountIn = 0], 500) = 500)
    /\ [](\A a \in AgentIds, bal \in 0..MaxBalance :
              LET s == agents[a].strategy IN
              /\ SwapAmount(s, bal) = (IF s.amountIn # 0 THEN s.amountIn ELSE bal)
              /\ InsufficientBalance(s, bal)
                     <=> (SwapAmount(s, bal) = 0 \/ bal < SwapAmount(s, bal))
              /\ CheckUpkeepUnfunded(s, bal) <=> InsufficientBalance(s, bal))
    /\ [](\A a \in AgentIds :
              ( /\ agents[a].exists
                /\ CheckUpkeep.ok
                /\ InsufficientBalance(agents[a].strategy,
                                       balance[agents[a].strategy.tokenIn]) )
              => a \notin SeqToSet(CheckUpkeep.value))
    /\ [][\A a \in AgentIds :
              (last'.op = "executeSwap" /\ last'.id = a)
              => LET s == agents[a].strategy
                     bal == balance[s.tokenIn]
                 IN  /\ last'.result = "InsufficientBalance"
                            => /\ SwapAmount(s, bal) = 0 \/ bal < SwapAmount(s, bal)
                               /\ UNCHANGED <<registry, config, world,
                                              tokens, events>>
                     /\ last'.result \in {"ok", "SwapFailed"}
                            => /\ SwapAmount(s, bal) > 0
                               /\ bal >= SwapAmount(s, bal)
                     /\ last'.result = "ok"
                            => balance'[s.tokenIn] = bal - SwapAmount(s, bal)
                     /\ ( /\ ExecuteSwapCheck(a, FALSE)
                                 \in {"ok", "InsufficientBalance"}
                          /\ (SwapAmount(s, bal) = 0 \/ bal < SwapAmount(s, bal)) )
                            => last'.result = "InsufficientBalance"]_vars

\* An agent with amountIn = 0 swapped its whole balance, and the next
\* attempt failed with InsufficientBalance on the resolved amount 0.
C12_Witness ==
    \E a \in AgentIds :
        /\ last = Call("executeSwap", a, "InsufficientBalance")
        /\ agents[a].strategy.amountIn = 0
        /\ balance[agents[a].strategy.tokenIn] = 0
        /\ agents[a].totalExecutions >= 1

\* the (mantissa, exponent) pairs the normalizers are applied to
NormalizerInputs == {-1, 0, 1, 2, 3} \X {-8, -1, 0, 1, 2}

\* mantissa * 10^exponent for the exponents 0, 1 and 2
ScaledUp(price, expo) ==
    IF expo = 0 THEN price ELSE IF expo = 1 THEN price * 10 ELSE price * 100

\* the outcomes of an attempt that read a price and went on to compare it
PastNormalization ==
    {"ok", "TriggerNotMet", "InsufficientBalance", "SwapFailed"}

ScanIds == {1, 2}

\* Two agents cannot share a tokenIn (the second safeApprove reverts), so
\* the strategies spend token 1 or token 2: ready on a price >= 2, cooling
\* down until StartTime + 1, ready on a price <= 2, inactive, and swapping
\* the whole balance.
ScanStrategies ==
    {Strategy(1, 2, TRUE, 1, 2, 1, TRUE, 0, 0),
     Strategy(1, 2, TRUE, 1, 2, 1, TRUE, 0, StartTime + 1),
     Strategy(1, 2, FALSE, 2, 1, 2, TRUE, 0, 0),
     Strategy(1, 2, TRUE, 2, 1, 1, FALSE, 0, 0),
     Strategy(1, 2, TRUE, 2, 1, 0, TRUE, 0, 0)}

ScanBudgets == {0, 1}
ScanAges == {0}

InitScan ==
    /\ Init
    /\ contract = "swap"
    /\ pyth = [price |-> 2, expo |-> -8, publishTime |-> StartTime]

NextScan ==
    \/ \E id \in ScanIds, s \in ScanStrategies : CreateAgent(id, 1, 1, s)
    \/ \E id \in ScanIds, token \in Tokens : Deposit(id, 1, token, 1)
    \/ \E max \in ScanBudgets : SetMaxAgentsPerCheck(max)
    \/ \E age \in ScanAges : SetPriceMaxAge(age)
    \/ CheckUpkeepCall
    \/ Tick
    \/ \E p \in Prices : PythPublish(p, -8)

SpecScan == InitScan /\ [][NextScan]_vars

\* C14 (as stated): a scan never aborts; whatever the registry and the
\* oracle hold, checkUpkeep returns a result.
C14_ScanNeverAborts ==
    /\ CheckUpkeep.ok
    /\ last.op = "checkUpkeep" => last.result = "ok"

\* The maximum staleness the deployed registry is configured with.
MaxStaleness ==
    IF contract = "swap" THEN priceMaxAge ELSE TriggerPriceMaxAge

\* C15: the execution record of an agent (totalExecutions, the event log)
\* changes only in a successful executeSwap / checkAndExecuteTrigger of
\* that agent, and that call has seen, at its own timestamp, that the
\* agent exists, is active and past its cooldown, that the price it read
\* is no older than the configured maximum staleness and meets the
\* trigger, and (swap registry) that the tokenIn balance covers the
\* resolved amount; the commit stamps lastExecuted with that timestamp;
\* performUpkeep commits nothing on its own, whatever ids it is given.
C15_CommitOnlyAfterChecks ==
    [][\A a \in AgentIds :
          /\ ( \/ Committed(a)
               \/ events'[a] # events[a]
               \/ agents'[a].totalExecutions # agents[a].totalExecutions )
             => LET s == agents[a].strategy IN
                /\ Committed(a)
                /\ agents[a].exists
                /\ s.isActive
                /\ now >= s.lastExecuted + s.cooldownPeriod
                /\ PythKnows(s.priceFeedId)
                /\ now - pyth'.publishTime <= MaxStaleness
                /\ pyth'.price > 0
                /\ Met(s, ConvertPrice(pyth'.price, pyth'.expo).value)
                /\ contract = "swap"
                       => /\ SwapAmount(s, balance[s.tokenIn]) > 0
                          /\ balance[s.tokenIn]
                                 >= SwapAmount(s, balance[s.tokenIn])
                /\ agents'[a].strategy.lastExecuted = now
                /\ events'[a].time = now
                /\ now' = now
          /\ last'.op = "performUpkeep"
             => agents' = agents /\ events' = events]_vars

\* An execution committed one second after StartTime on a price published
\* in that same second.
C15_Witness ==
    \E a \in AgentIds :
        /\ last.op \in ExecOps /\ last.id = a /\ last.result = "ok"
        /\ now = StartTime + 1
        /\ agents[a].strategy.lastExecuted = now
        /\ pyth.publishTime = now

\* C16 (as stated): performUpkeep commits every listed agent for which a
\* direct executeSwap in the same state passes all its checks:
\* lastExecuted becomes now, totalExecutions rises by one and one
\* execution event is recorded.
C16_PerformUpkeepExecutes ==
    [][\A a \in AgentIds :
          (PerformUpkeep(<<a>>) /\ ExecuteSwapCheck(a, FALSE) = "ok")
          => /\ agents'[a].strategy.lastExecuted = now
             /\ agents'[a].totalExecutions = agents[a].totalExecutions + 1
             /\ events'[a].n = events[a].n + 1]_vars

Position(id) == CHOOSE k \in 1..Len(allAgentIds) : allAgentIds[k] = id

\* C18: checkUpkeep examines the first maxAgentsPerCheck entries of
\* allAgentIds at most; the list it returns has at most maxAgentsPerCheck
\* ids, all of them examined, each once, in the order of allAgentIds; and
\* upkeepNeeded is true exactly when the returned list is not empty.
C18_ScanBudget ==
    /\ Len(Examined) <= maxAgentsPerCheck
    /\ Examined = SubSeq(allAgentIds, 1, Len(Examined))
    /\ CheckUpkeep.ok
           => LET r == PerformData(CheckUpkeep.value) IN
              /\ Len(r) <= maxAgentsPerCheck
              /\ \A i \in 1..Len(r) :
                     /\ r[i] \in SeqToSet(Examined)
                     /\ Position(r[i]) <= maxAgentsPerCheck
              /\ \A i, j \in 1..Len(r) :
                     i < j => Position(r[i]) < Position(r[j])
              /\ UpkeepNeeded(CheckUpkeep.value) <=> Len(r) > 0
    /\ (last.op = "checkUpkeep" /\ last.result = "ok")
           => /\ last.upkeepNeeded <=> Len(last.performData) > 0
              /\ Len(last.performData) <= maxAgentsPerCheck

\* With a budget of one, a scan of two ready agents returned the first
\* of them only.
C18_Witness ==
    /\ last.op = "checkUpkeep" /\ last.result = "ok"
    /\ maxAgentsPerCheck = 1
    /\ Len(allAgentIds) = 2
    /\ CheckUpkeepEntry(allAgentIds[1]) = "ready"
    /\ CheckUpkeepEntry(allAgentIds[2]) = "ready"
    /\ last.performData = <<allAgentIds[1]>>

\* Agent a is ready: active, past its cooldown, funded for the resolved
\* swap amount, with a fetchable price no older than priceMaxAge on which
\* the trigger is Met.
Ready(a) ==
    LET s == agents[a].strategy
        bal == balance[s.tokenIn]
        amount == IF s.amountIn # 0 THEN s.amountIn ELSE bal
    IN  /\ agents[a].exists
        /\ s.isActive
        /\ now >= s.lastExecuted + s.cooldownPeriod
        /\ amount > 0 /\ bal >= amount
        /\ s.priceFeedId \in KnownFeed
        /\ now - pyth.publishTime <= priceMaxAge
        /\ pyth.price > 0
        /\ Met(s, ConvertPrice(pyth.price, pyth.expo).value)

\* C19: in a result that checkUpkeep returns, an examined agent is listed
\* exactly when it is ready, and no agent that is not ready is listed.
C19_ScanSelection ==
    /\ CheckUpkeep.ok
           => /\ \A a \in SeqToSet(Examined) :
                     a \in SeqToSet(CheckUpkeep.value) <=> Ready(a)
              /\ \A a \in AgentIds :
                     a \in SeqToSet(PerformData(CheckUpkeep.value))
                         => Ready(a)
    /\ (last.op = "checkUpkeep" /\ last.result = "ok")
           => \A a \in SeqToSet(Examined) :
                  a \in SeqToSet(last.performData) <=> Ready(a)

\* A scan of two agents listed the second and skipped the first, which is
\* active and past its cooldown but not funded.
C19_Witness ==
    /\ last.op = "checkUpkeep" /\ last.result = "ok"
    /\ Len(allAgentIds) = 2
    /\ last.performData = <<allAgentIds[2]>>
    /\ agents[allAgentIds[1]].strategy.isActive
    /\ ~CooldownActive(agents[allAgentIds[1]].strategy, now)
    /\ ~Ready(allAgentIds[1])

\* ------------------------------------------------ the keeper (C20)
\* The keeper against a swap registry of two agents that both can be
\* ready, one spending token 1 and one the whole balance of token 2.
KeeperStrategies ==
    {Strategy(1, 2, TRUE, 1, 2, 1, TRUE, 0, 0),
     Strategy(1, 2, TRUE, 2, 1, 0, TRUE, 0, 0)}

NextKeeper ==
    \/ \E id \in ScanIds, s \in KeeperStrategies : CreateAgent(id, 1, 1, s)
    \/ \E id \in ScanIds, token \in Tokens : Deposit(id, 1, token, 1)
    \/ \E p \in Prices : PythPublish(p, -8)
    \/ KeeperStart
    \/ \E rpcOk \in BOOLEAN : KeeperCheckUpkeep(rpcOk)
    \/ \E rpcOk \in BOOLEAN : KeeperGetAgent(rpcOk)
    \/ \E fetched \in BOOLEAN : KeeperFetchPriceUpdateData(fetched)
    \/ \E quoted \in BOOLEAN : KeeperGet1inchSwapData(quoted)
    \/ KeeperGetUpdateFee
    \/ KeeperSleep
    \/ KeeperStop
    \/ KeeperSignal

SpecKeeper == InitScan /\ [][NextKeeper]_vars

\* The keeper's interval timer fires: a sleep that has begun ends.
SpecKeeperLive == SpecKeeper /\ WF_vars(KeeperSleep)

\* the ids of the candidates processed so far in the cycle
DoneIds == [i \in 1..Len(keeper.done) |-> keeper.done[i].id]

\* C20: in a keeper cycle every candidate the scan returned is processed,
\* in the order of the scan, whatever failed for the candidates before it
\* (a thrown error of getAgent or of the price fetch, a missing swap
\* quote, a failed call): while the loop runs the processed candidates are
\* the ones before the current one, and when the cycle is over they are
\* all the candidates.
C20_KeeperCycleNeverAborts ==
    /\ keeper.pc = "executeAgent"
           => /\ keeper.next \in 1..Len(keeper.agentIds)
              /\ DoneIds = SubSeq(keeper.agentIds, 1, keeper.next - 1)
    /\ keeper.pc = "sleep" => DoneIds = keeper.agentIds

\* A cycle with two candidates is over: the first one failed with a
\* thrown error and the second one was processed all the same.
C20_Witness ==
    /\ keeper.pc = "sleep"
    /\ Len(keeper.agentIds) = 2
    /\ Len(keeper.done) = 2
    /\ keeper.done[1].outcome = "error"
    /\ keeper.done[2].outcome = "skipped"

\* Some candidate of the cycle failed with a thrown error.
CycleFailed ==
    \E i \in 1..Len(keeper.done) : keeper.done[i].outcome = "error"

\* C21: a failed cycle locks nothing out. While the keeper is running,
\* the sleep after a cycle (failed or not) is followed by a new scan, and
\* by nothing else; the keeper's steps leave the registry, the balances
\* and the event log as they are; and the new cycle takes as candidates
\* exactly what the scan returns, the agents that failed in the cycle
\* before included.
C21_NoLockout ==
    /\ [][(keeper.pc = "sleep" /\ keeper.isRunning /\ keeper'.pc # "sleep")
             => keeper'.pc \in {"checkUpkeep", "exited"}]_vars
    /\ [][keeper' # keeper
             => UNCHANGED <<registry, config, tokens, events>>]_vars
    /\ [][(keeper.pc = "checkUpkeep" /\ keeper'.pc = "executeAgent")
             => /\ CheckUpkeep.ok
                /\ keeper'.agentIds = PerformData(CheckUpkeep.value)
                /\ \A i \in 1..Len(keeper.done) :
                       keeper.done[i].id \in SeqToSet(CheckUpkeep.value)
                           => keeper.done[i].id \in SeqToSet(keeper'.agentIds)
                /\ keeper'.next = 1 /\ keeper'.done = <<>>]_vars
    /\ (keeper.pc = "sleep" /\ keeper.isRunning /\ CycleFailed)
           ~> (keeper.pc \in {"checkUpkeep", "exited"} \/ ~keeper.isRunning)

\* A new cycle begins after a failed one, and the scan returns the agent
\* that failed.
C21_Witness ==
    /\ keeper.pc = "checkUpkeep"
    /\ keeper.isRunning
    /\ CycleFailed
    /\ CheckUpkeep.ok
    /\ \E i \in 1..Len(keeper.done) :
           /\ keeper.done[i].outcome = "error"
           /\ keeper.done[i].id \in SeqToSet(CheckUpkeep.value)

\* C22 (as stated): once a per-agent execution is in flight it runs to its
\* end, shutdown request or not (the keeper stays in its cycle until the
\* candidate is dealt with); and after a shutdown request no new cycle
\* is started.
C22_GracefulCancellation ==
    /\ [][keeper.pc = "executeAgent"
             => keeper'.pc \in {"executeAgent", "sleep"}]_vars
    /\ [][(~keeper.isRunning /\ keeper.pc \notin {"off", "checkUpkeep"})
             => keeper'.pc # "checkUpkeep"]_vars

\* ------------------------------------------------- claims C23 to C30
\* The strategy invariants of the data model.
StrategyInvariants(s) ==
    /\ s.priceFeedId # 0
    /\ s.triggerPrice > 0
    /\ s.tokenIn # 0
    /\ s.tokenOut # 0
    /\ s.tokenIn # s.tokenOut

\* C23: the strategy of every stored agent satisfies the strategy
\* invariants; a createAgent or updateStrategy whose strategy violates one
\* of them fails and changes nothing, with InvalidStrategy when the checks
\* before the validation pass (the id is free, resp. the caller owns the
\* agent); a strategy with minReturnAmount = 0 is accepted.
C23_StrategyInvariants ==
    /\ [](\A a \in AgentIds :
              agents[a].exists => StrategyInvariants(agents[a].strategy))
    /\ [](\A a \in AgentIds, c \in Users, s \in InvalidStrategies :
              ~StrategyInvariants(s)
              => LET created == IF contract = "swap"
                                    THEN CreateAgentResult(a, s)
                                    ELSE TriggerCreateAgentResult(a, s)
                     updated == IF contract = "swap"
                                    THEN UpdateStrategyResult(a, c, s)
                                    ELSE TriggerUpdateStrategyResult(a, c, s)
                 IN /\ created # "ok"
                    /\ updated # "ok"
                    /\ ~agents[a].exists => created = "InvalidStrategy"
                    /\ (agents[a].exists /\ agents[a].owner = c)
                           => updated = "InvalidStrategy")
    /\ [][(last'.op \in {"createAgent", "updateStrategy"}
               /\ last'.result # "ok")
          => UNCHANGED <<registry, config, world, tokens, events>>]_vars
    /\ [][\A a \in AgentIds :
              (last'.op = "createAgent" /\ last'.id = a /\ last'.result = "ok")
              => /\ StrategyInvariants(agents'[a].strategy)
                 /\ agents'[a].strategy.minReturnAmount = 0]_vars

\* The owner's updateStrategy with a strategy that breaks an invariant
\* was refused.
C23_Witness ==
    \E a \in AgentIds :
        /\ last = Call("updateStrategy", a, "InvalidStrategy")
        /\ agents[a].exists
        /\ agents[a].strategy.minReturnAmount = 0
        /\ StrategyInvariants(agents[a].strategy)

\* A strategy that passes the field checks and names a feed the oracle
\* cannot resolve.
UnresolvableFeed(s) == StrategyInvariants(s) /\ ~PythKnows(s.priceFeedId)

\* C24: a createAgent, or the owner's updateStrategy, whose strategy names
\* a priceFeedId the oracle cannot resolve fails with InvalidPriceFeed, and
\* no failing createAgent or updateStrategy creates, binds or indexes
\* anything.
C24_UnresolvableFeed ==
    /\ [](\A a \in AgentIds, c \in Users, s \in InvalidStrategies :
              UnresolvableFeed(s)
              => LET created == IF contract = "swap"
                                    THEN CreateAgentResult(a, s)
                                    ELSE TriggerCreateAgentResult(a, s)
                     updated == IF contract = "swap"
                                    THEN UpdateStrategyResult(a, c, s)
                                    ELSE TriggerUpdateStrategyResult(a, c, s)
                 IN /\ ~agents[a].exists => created = "InvalidPriceFeed"
                    /\ (agents[a].exists /\ agents[a].owner = c)
                           => updated = "InvalidPriceFeed")
    /\ [][(last'.op \in {"createAgent", "updateStrategy"}
               /\ last'.result \in {"InvalidPriceFeed", "InvalidStrategy"})
          => UNCHANGED <<agents, userAgents, allAgentIds, agentCount,
                         ensNodeToAgentId>>]_vars

\* C25: in the swap registry the number of SwapExecuted records of an
\* agent equals its totalExecutions; a committed execution appends exactly
\* one record, carrying the timestamp of the committing call, the trigger
\* price of the strategy it executed and the price it read, and every
\* other step, a failed attempt included, leaves the records alone.
C25_ExecutionRecords ==
    /\ [](contract = "swap"
              => \A a \in AgentIds : events[a].n = agents[a].totalExecutions)
    /\ [][\A a \in AgentIds :
              IF last' = Call("executeSwap", a, "ok")
                  THEN events'[a] =
                           [n |-> events[a].n + 1,
                            time |-> now,
                            triggerPrice |-> agents[a].strategy.triggerPrice,
                            actualPrice |->
                                ConvertPrice(pyth.price, pyth.expo).value,
                            expo |-> 0]
              ELSE IF /\ last'.op = "checkAndExecuteTrigger"
                      /\ last'.id = a /\ last'.result = "ok"
                  THEN events'[a] =
                           [n |-> events[a].n + 1,
                            time |-> now,
                            triggerPrice |-> agents[a].strategy.triggerPrice,
                            actualPrice |-> pyth'.price,
                            expo |-> pyth'.expo]
              ELSE events'[a] = events[a]]_vars

\* A second execution was committed at a price other than the trigger
\* price.
C25_Witness ==
    \E a \in AgentIds :
        /\ last = Call("executeSwap", a, "ok")
        /\ agents[a].totalExecutions = 2
        /\ events[a].n = 2
        /\ events[a].time = now
        /\ events[a].actualPrice # events[a].triggerPrice

\* The monitoring service beside either registry.
NextMonitor ==
    \/ \E id \in ScanIds, s \in ScanStrategies : CreateAgent(id, 1, 1, s)
    \/ \E id \in ScanIds, s \in ScanStrategies :
           TriggerCreateAgent(id, 1, 1, s)
    \/ \E id \in ScanIds : DeactivateAgent(id, 1)
    \/ \E p \in Prices : PythPublish(p, -8)
    \/ \E id \in ScanIds, getOk, checkOk \in BOOLEAN, f \in FetchOutcomes :
           MonitorAgentCall(id, getOk, checkOk, f)
    \/ \E ids \in {<<2>>, <<1, 2>>}, ok \in BOOLEAN, f \in FetchOutcomes :
           MonitorAgentsCall(ids, ok, ok, f)

SpecMonitor == Init /\ [][NextMonitor]_vars

\* checkTrigger of the deployed registry
DeployedCheckTrigger(a) ==
    IF contract = "swap" THEN CheckTrigger(a) ELSE TriggerCheckTrigger(a)

\* C26 (as stated): for an agent that exists, is active and whose
\* checkTrigger reports met, when every read succeeds and the price update
\* data is fetched, monitorAgent returns executed = true and monitorAgents
\* counts it in executed.
C26_MonitorExecutes ==
    \A a \in AgentIds :
        ( /\ agents[a].exists
          /\ agents[a].strategy.isActive
          /\ DeployedCheckTrigger(a).ok
          /\ DeployedCheckTrigger(a).value.met )
        => /\ MonitorAgent(a, TRUE, TRUE, "data").triggerMet
           /\ MonitorAgent(a, TRUE, TRUE, "data").executed
           /\ MonitorAgents(<<a>>, TRUE, TRUE, "data").executed = 1

\* The failure the state-machine order gives an execution attempt on
\* agent a of the swap registry: NotFound, not active, stale or unusable
\* price, TriggerNotMet, cooldown, InsufficientBalance ("ok": the swap is
\* called).
OrderedSwapFailure(a) ==
    LET s == agents[a].strategy
        price == ConvertPrice(pyth.price, pyth.expo)
    IN  IF ~agents[a].exists THEN "AgentNotFound"
        ELSE IF ~s.isActive THEN "InvalidStrategy"
        ELSE IF ~( s.priceFeedId \in KnownFeed
                   /\ now - pyth.publishTime <= priceMaxAge )
            THEN "StalePrice"
        ELSE IF ~price.ok THEN "InvalidPrice"
        ELSE IF ~Met(s, price.value) THEN "TriggerNotMet"
        ELSE IF now < s.lastExecuted + s.cooldownPeriod THEN "CooldownActive"
        ELSE IF InsufficientBalance(s, balance[s.tokenIn])
            THEN "InsufficientBalance"
        ELSE "ok"

\* The same order for checkAndExecuteTrigger called with updateData and
\* msgValue.
OrderedTriggerFailure(a, updateData, msgValue) ==
    LET s == agents[a].strategy
        observed == PythAfter(updateData, now)
        price == ConvertPriceToUint(observed.price, observed.expo)
    IN  IF ~agents[a].exists THEN "AgentNotFound"
        ELSE IF ~s.isActive THEN "StrategyNotActive"
        ELSE IF Len(updateData) > 0 /\ msgValue < Len(updateData)
            THEN "InsufficientFee"
        ELSE IF ~( s.priceFeedId \in KnownFeed
                   /\ now - observed.publishTime <= TriggerPriceMaxAge )
            THEN "StalePrice"
        ELSE IF observed.publishTime = 0 THEN "PriceNotUpdated"
        ELSE IF ~price.ok THEN "InvalidPrice"
        ELSE IF ~Met(s, price.value) THEN "TriggerNotMet"
        ELSE IF now < s.lastExecuted + s.cooldownPeriod
            THEN "CooldownNotExpired"
        ELSE "ok"

\* C27 (as stated): an execution attempt that fails reports the first
\* failing step in the order NotFound, not active, stale or unavailable
\* price, TriggerNotMet, cooldown, InsufficientBalance, SwapFailed; an
\* agent that is both untriggered and cooling down fails with
\* TriggerNotMet.
C27_FailureOrder ==
    \A a \in AgentIds :
        /\ contract = "swap"
               => ExecuteSwapCheck(a, FALSE) = OrderedSwapFailure(a)
        /\ contract = "trigger"
               => \A data \in UpdateDatas, value \in 0..1 :
                      CheckAndExecuteTriggerCheck(a, data, value)
                          = OrderedTriggerFailure(a, data, value)

\* The operations the all-or-nothing rule names.
RegistryOps ==
    {"createAgent", "updateStrategy", "activateAgent", "deactivateAgent",
     "transferAgentOwnership", "executeSwap", "checkAndExecuteTrigger"}

\* C28: a call of createAgent, updateStrategy, activateAgent,
\* deactivateAgent, transferAgentOwnership, executeSwap or
\* checkAndExecuteTrigger that fails, with whatever error, leaves agents,
\* userAgents, allAgentIds, agentCount, the identity bindings and the
\* execution records exactly as they were.
C28_AllOrNothing ==
    [][(last'.op \in RegistryOps /\ last'.result # "ok")
       => UNCHANGED <<agents, userAgents, allAgentIds, agentCount,
                      ensNodeToAgentId, events>>]_vars

\* An execution that had committed once failed at its last step, the swap.
C28_Witness ==
    \E a \in AgentIds :
        /\ last = Call("executeSwap", a, "SwapFailed")
        /\ agents[a].totalExecutions = 1
        /\ events[a].n = 1

\* The operations reserved to the owner; the fields they write.
OwnerOps ==
    {"updateStrategy", "activateAgent", "deactivateAgent",
     "transferAgentOwnership", "deposit", "withdraw"}

\* What a caller other than the owner gets from every owner-only
\* operation on the existing agent a, a transfer to newOwner included.
StrangerResults(a, c, newOwner) ==
    {IF contract = "swap" THEN UpdateStrategyResult(a, c, s)
                          ELSE TriggerUpdateStrategyResult(a, c, s) :
        s \in ExecStrategies \cup InvalidStrategies}
    \cup {OwnerCheck(a, c)}
    \cup {TransferAgentOwnershipResult(a, c, newOwner)}

\* Apart from lastExecuted, which an execution stamps, the strategy of
\* the agent is the same before and after the step.
SameStrategyButStamp(a) ==
    [agents'[a].strategy EXCEPT !.lastExecuted = 0]
        = [agents[a].strategy EXCEPT !.lastExecuted = 0]

\* C29 (as stated): every owner-only operation by a caller other than the
\* owner fails with Unauthorized, and after a successful transfer the
\* previous owner is Unauthorized.
C29_OnlyOwnerAsStated ==
    /\ [](\A a \in AgentIds, c \in Users, n \in Users \cup {ZeroAddress} :
              (agents[a].exists /\ agents[a].owner # c)
              => StrangerResults(a, c, n) = {"Unauthorized"})
    /\ [][\A a \in AgentIds :
              last' = Call("transferAgentOwnership", a, "ok")
              => agents'[a].owner # agents[a].owner]_vars

\* C29: only the current owner of an agent can change its strategy, its
\* isActive flag or its owner. An owner-only operation by any other caller
\* fails with Unauthorized (a transfer that names the null identity fails
\* as an invalid new owner, whoever calls) and changes nothing; a
\* successful transfer makes the new owner the only authorized caller, so
\* the previous owner is Unauthorized unless it transferred to itself; a
\* transfer to the null identity always fails.
C29_OnlyOwner ==
    /\ [](\A a \in AgentIds, c \in Users :
              agents[a].exists
              => /\ agents[a].owner # c
                     => /\ \A n \in Users :
                               StrangerResults(a, c, n) = {"Unauthorized"}
                        /\ StrangerResults(a, c, ZeroAddress)
                               = {"Unauthorized", "InvalidNewOwner"}
                 /\ agents[a].owner = c
                     => /\ OwnerCheck(a, c) = "ok"
                        /\ \A n \in Users :
                               TransferAgentOwnershipResult(a, c, n) = "ok"
                        /\ TransferAgentOwnershipResult(a, c, ZeroAddress)
                               # "ok")
    /\ [][(last'.op \in OwnerOps
               /\ last'.result \in {"Unauthorized", "InvalidNewOwner"})
          => UNCHANGED <<registry, config, world, tokens, events>>]_vars
    /\ [][\A a \in AgentIds :
              agents[a].exists
              => /\ agents'[a].owner # agents[a].owner
                     => /\ last' = Call("transferAgentOwnership", a, "ok")
                        /\ agents'[a].owner \in Users
                 /\ ~SameStrategyButStamp(a)
                     => /\ last'.op \in {"updateStrategy", "activateAgent",
                                         "deactivateAgent"}
                        /\ last'.id = a
                        /\ last'.result = "ok"]_vars

\* Ownership went from user 1 to user 2: user 1 is now refused, user 2 is
\* not.
C29_Witness ==
    \E a \in AgentIds :
        /\ last = Call("transferAgentOwnership", a, "ok")
        /\ agents[a].owner = 2
        /\ OwnerCheck(a, 1) = "Unauthorized"
        /\ OwnerCheck(a, 2) = "ok"

\* C30: a successful updateStrategy(a, newStrategy) makes the stored
\* strategy of a equal to newStrategy in every field, isActive,
\* lastExecuted and cooldownPeriod included, and leaves the owner, the
\* identity binding, createdAt, totalExecutions, the exists flag, the
\* owner index, the agent list and every other agent unchanged.
C30_UpdateStrategyFrame ==
    [][\A a \in AgentIds :
           last' = Call("updateStrategy", a, "ok")
           => /\ \A c \in Users, s \in ExecStrategies :
                     (UpdateStrategy(a, c, s) \/ TriggerUpdateStrategy(a, c, s))
                     => agents'[a].strategy = s
              /\ agents'[a] = [agents[a] EXCEPT
                                   !.strategy = agents'[a].strategy]
              /\ \A b \in AgentIds \ {a} : agents'[b] = agents[b]
              /\ UNCHANGED <<userAgents, allAgentIds, agentCount,
                             ensNodeToAgentId, events>>]_vars

\* An update replaced an active strategy that had executed by an inactive
\* one with another lastExecuted.
C30_Witness ==
    \E a \in AgentIds :
        /\ last = Call("updateStrategy", a, "ok")
        /\ agents[a].totalExecutions = 1
        /\ ~agents[a].strategy.isActive
        /\ agents[a].strategy.lastExecuted # events[a].time

\* ------------------------------------------------- claims C31 to C39
\* The isActive flag a successful call of op leaves.
FlagOf(op) == op = "activateAgent"

\* C31: activateAgent and deactivateAgent by the owner succeed whatever
\* isActive is, leave isActive true (resp. false), and change no other
\* field of the agent (lastExecuted, cooldownPeriod, totalExecutions
\* included), no other agent, no index and no record; so a repeated call
\* is a no-op success and deactivating then re-activating does not touch
\* the cooldown.
C31_ActivationIdempotent ==
    /\ [](\A a \in AgentIds :
              agents[a].exists => OwnerCheck(a, agents[a].owner) = "ok")
    /\ [][\A a \in AgentIds :
              ( /\ last'.op \in {"activateAgent", "deactivateAgent"}
                /\ last'.id = a
                /\ last'.result = "ok" )
              => /\ agents' = [agents EXCEPT
                        ![a].strategy.isActive = FlagOf(last'.op)]
                 /\ agents[a].strategy.isActive = FlagOf(last'.op)
                        => agents' = agents
                 /\ UNCHANGED <<userAgents, allAgentIds, agentCount,
                                ensNodeToAgentId, config, world, tokens,
                                events>>]_vars

\* An agent that executed and is still cooling down was re-activated.
C31_Witness ==
    \E a \in AgentIds :
        /\ last = Call("activateAgent", a, "ok")
        /\ agents[a].strategy.isActive
        /\ events[a].n = 1
        /\ agents[a].strategy.lastExecuted = events[a].time
        /\ now < agents[a].strategy.lastExecuted
                     + agents[a].strategy.cooldownPeriod

\* The trigger-only registry with payloads of up to two updates and
\* payments of up to MaxPayment.
MaxPayment == 3

FeePayloads == UpdateDatas \cup {<<o, o>> : o \in Observations}

InitFee == Init /\ contract = "trigger"

NextFee ==
    \/ \E s \in ExecStrategies : TriggerCreateAgent(1, 1, 1, s)
    \/ \E data \in FeePayloads, value \in 0..MaxPayment, refundOk \in BOOLEAN :
           CheckAndExecuteTrigger(1, data, value, refundOk)
    \/ Tick
    \/ \E o \in Observations : PythPublish(o.price, o.expo)

SpecFee == InitFee /\ [][NextFee]_vars

\* C32: an execution attempt that carries a payload of n > 0 updates, for
\* which the adapter quotes fee f = n, with payment v: if v < f the call
\* fails with the fee error; a failed call changes nothing; a successful
\* call had v >= f, paid the adapter exactly f and refunded the caller
\* exactly v - f, so the registry kept nothing.
C32_FeeAndRefund ==
    /\ [](\A a \in AgentIds, data \in FeePayloads, v \in 0..MaxPayment :
              ( /\ agents[a].exists /\ agents[a].strategy.isActive
                /\ Len(data) > 0 /\ v < Len(data) )
              => CheckAndExecuteTriggerCheck(a, data, v) = "InsufficientFee")
    /\ [][(last'.op = "checkAndExecuteTrigger" /\ last'.result # "ok")
          => UNCHANGED <<registry, config, world, tokens, events>>]_vars
    /\ [][( /\ last'.op = "checkAndExecuteTrigger"
            /\ last'.result = "ok"
            /\ last'.updates > 0 )
          => /\ last'.ether.value >= last'.updates
             /\ last'.ether.fee = last'.updates
             /\ last'.ether.refund = last'.ether.value - last'.updates
             /\ last'.ether.kept = 0]_vars

\* A call with one update and a payment of 3 committed: 1 to the adapter,
\* 2 back to the caller.
C32_Witness ==
    /\ last.op = "checkAndExecuteTrigger"
    /\ last.result = "ok"
    /\ last.updates = 1
    /\ last.ether.value = 3
    /\ last.ether.fee = 1
    /\ last.ether.refund = 2

\* Either registry with strategies whose cooldown sum reaches past the
\* largest unsigned value: the first has executed at time 1 and was given
\* the largest cooldownPeriod, the other two are ordinary and ready.
OverflowStrategies ==
    {Strategy(1, 2, TRUE, 1, 2, 1, TRUE, 1, MaxUint),
     Strategy(1, 2, TRUE, 1, 2, 1, TRUE, 0, 0),
     Strategy(1, 2, TRUE, 2, 1, 1, TRUE, 0, 0)}

InitOverflow ==
    /\ Init
    /\ pyth = [price |-> 2, expo |-> -8, publishTime |-> StartTime]

NextOverflow ==
    \/ \E id \in ScanIds, s \in OverflowStrategies : CreateAgent(id, 1, 1, s)
    \/ \E id \in ScanIds, s \in OverflowStrategies :
           TriggerCreateAgent(id, 1, 1, s)
    \/ \E id \in ScanIds, token \in Tokens : Deposit(id, 1, token, 1)
    \/ \E id \in ScanIds, swapOk \in BOOLEAN : ExecuteSwap(id, swapOk, 1)
    \/ \E id \in ScanIds : CheckAndExecuteTrigger(id, <<>>, 0, TRUE)
    \/ CheckUpkeepCall
    \/ Tick

SpecOverflow == InitOverflow /\ [][NextOverflow]_vars

\* C33 (as stated): whatever lastExecuted and cooldownPeriod an agent
\* stores, the cooldown test of checkUpkeep, executeSwap and
\* checkAndExecuteTrigger answers eligible or cooling down and never fails
\* arithmetically: no scan and no execution attempt ends in a panic.
C33_EligibilityTotal ==
    /\ last.result # "Panic"
    /\ contract = "swap" => (CheckUpkeep.ok \/ CheckUpkeep.value # "Panic")
    /\ \A a \in AgentIds :
           agents[a].exists
           => /\ contract = "swap" => ExecuteSwapCheck(a, FALSE) # "Panic"
              /\ contract = "trigger"
                     => CheckAndExecuteTriggerCheck(a, <<>>, 0) # "Panic"

\* The swap registry as deployed, scanned again and again, with one agent
\* more than the default budget covers: the default maxAgentsPerCheck (50,
\* against 51 agents) is scaled to one less than the number of ids.
CoverageBudget == Cardinality(ScanIds) - 1

InitCoverage ==
    /\ contract = "swap"
    /\ agents = [id \in AgentIds |-> NoAgent]
    /\ userAgents = [u \in Users |-> <<>>]
    /\ allAgentIds = <<>>
    /\ agentCount = 0
    /\ ensNodeToAgentId = [l \in Labels |-> 0]
    /\ maxAgentsPerCheck = CoverageBudget
    /\ priceMaxAge = DefaultPriceMaxAge
    /\ now = StartTime
    /\ pyth = [price |-> 2, expo |-> -8, publishTime |-> StartTime]
    /\ balance = [t \in Tokens |-> 0]
    /\ approved = {}
    /\ events = [id \in AgentIds |-> NoEvents]
    /\ keeper = KeeperOff
    /\ last = NoCall

NextCoverage ==
    \/ \E id \in ScanIds, s \in ScanStrategies : CreateAgent(id, 1, 1, s)
    \/ \E id \in ScanIds, token \in Tokens : Deposit(id, 1, token, 1)
    \/ CheckUpkeepCall
    \/ Tick
    \/ \E p \in Prices : PythPublish(p, -8)

\* The keeper network keeps calling checkUpkeep.
SpecCoverage ==
    InitCoverage /\ [][NextCoverage]_vars /\ WF_vars(CheckUpkeepCall)

\* The latest call was a scan whose result includes agent a.
Included(a) ==
    /\ last.op = "checkUpkeep"
    /\ last.result = "ok"
    /\ a \in SeqToSet(last.performData)

\* C34 (as stated): an agent that stays active, past cooldown, funded and
\* triggered is eventually included in a checkUpkeep result, whatever its
\* position in allAgentIds and however many agents exist.
C34_ScanCoverage ==
    \A a \in ScanIds : []([]Ready(a) => <>Included(a))

\* C35 (as stated): for a candidate whose oracle payload and swap quote
\* were both fetched, the keeper goes on to invoke executeSwap: the step
\* after the quote does not end the candidate with an error, and a
\* candidate is closed only as skipped (no quote, gas price over the cap)
\* or as executed.
C35_KeeperInvokesExecution ==
    [][( /\ keeper.pc = "executeAgent"
         /\ keeper.step = "getUpdateFee"
         /\ keeper'.done # keeper.done )
       => keeper'.done[Len(keeper'.done)].outcome
              \in {"executed", "skipped"}]_vars

\* The swap registry with two agents of two owners, spending different
\* tokens.
NextIsolation ==
    \/ \E id \in ScanIds, caller \in Users, s \in KeeperStrategies :
           CreateAgent(id, caller, 1, s)
    \/ \E id \in ScanIds, caller \in Users, token \in Tokens :
           Deposit(id, caller, token, 1)
    \/ \E id \in ScanIds, caller \in Users, token \in Tokens :
           Withdraw(id, caller, token, 1)
    \/ \E id \in ScanIds, swapOk \in BOOLEAN : ExecuteSwap(id, swapOk, 1)
    \/ \E p \in Prices : PythPublish(p, -8)

SpecIsolation == InitScan /\ [][NextIsolation]_vars

\* C36 (as stated): an execution attempt of agent A, successful or failed,
\* or a withdraw by A's owner, changes no field of another agent B and
\* does not lower the funds of B's tokenIn, so it cannot turn an execution
\* of B that would have succeeded into InsufficientBalance.
C36_AgentIsolation ==
    [][\A A, B \in ScanIds :
           ( /\ A # B
             /\ agents[A].exists /\ agents[B].exists
             /\ last'.id = A
             /\ last'.op \in {"executeSwap", "withdraw"} )
           => /\ agents'[B] = agents[B]
              /\ balance'[agents[B].strategy.tokenIn]
                     >= balance[agents[B].strategy.tokenIn]]_vars

\* Agent a is in the result of a scan made now.
Scanned(a) == CheckUpkeep.ok /\ a \in SeqToSet(CheckUpkeep.value)

\* C37 (as stated): the scan budget and the staleness window cannot be
\* changed by an arbitrary caller (the setters take no notice of who
\* calls), so no such call makes an agent that a scan returns drop out of
\* the scan.
C37_ConfigProtected ==
    [][last'.op \in {"setMaxAgentsPerCheck", "setPriceMaxAge"}
       => /\ UNCHANGED <<maxAgentsPerCheck, priceMaxAge>>
          /\ \A a \in ScanIds : Scanned(a) => Scanned(a)']_vars

\* One keeper object driven by any sequence of start() and stop().
NextLoops ==
    \/ StartLoop
    \/ StopLoops
    \/ \E i \in 1..MaxLoops : LoopCheckAndExecute(i)
    \/ \E i \in 1..MaxLoops : LoopSleep(i)

SpecLoops == InitScan /\ [][NextLoops]_vars

\* The polling loops alive: in a cycle or asleep.
ActiveLoops == {i \in 1..MaxLoops : keeper.loops[i] # "none"}

\* C38 (as stated): after any sequence of start() and stop() calls at
\* most one polling loop of a keeper is active.
C38_SingleLoop == Cardinality(ActiveLoops) <= 1

\* The keeper's cache under any sequence of fetches and delays.
NextCache ==
    \/ \E f \in CacheFeeds, h \in HermesAnswers : FetchPriceUpdateDataCall(f, h)
    \/ ClockAdvance

SpecCache == InitScan /\ [][NextCache]_vars

\* The cache holds for feed f an entry stored less than 10 seconds ago.
CachedFresh(f) ==
    /\ keeper.priceCache[f] # NoEntry
    /\ keeper.clock - keeper.priceCache[f].timestamp < 10000

\* C39: fetchPriceUpdateData(f) returns the cached payload, without asking
\* Hermes and without touching the cache, exactly when the entry of f was
\* stored less than 10 seconds earlier; otherwise it asks Hermes, and
\* either returns the new payload and replaces the entry of f by that
\* payload and the current time, or fails with the error of the fetch and
\* leaves the cache as it was. The entries of other feeds never change.
C39_PriceCache ==
    [][\A f \in CacheFeeds :
           (last'.op = "fetchPriceUpdateData" /\ last'.id = f)
           => /\ CachedFresh(f)
                     => /\ last'.result = "ok"
                        /\ ~last'.fetched
                        /\ last'.data = keeper.priceCache[f].data
                        /\ keeper'.priceCache = keeper.priceCache
              /\ ~CachedFresh(f)
                     => /\ last'.fetched
                        /\ last'.result = "ok"
                               => keeper'.priceCache[f] =
                                      [data |-> last'.data,
                                       timestamp |-> keeper.clock]
                        /\ last'.result = "error"
                               => keeper'.priceCache = keeper.priceCache
              /\ \A g \in CacheFeeds \ {f} :
                     keeper'.priceCache[g] = keeper.priceCache[g]]_vars

\* A fetch was answered from an entry stored 5 seconds earlier, while the
\* entry of the other feed is 10 seconds old or older.
C39_Witness ==
    \E f, g \in CacheFeeds :
        /\ last.op = "fetchPriceUpdateData" /\ last.id = f
        /\ last.result = "ok" /\ ~last.fetched
        /\ keeper.clock - keeper.priceCache[f].timestamp = ClockStep
        /\ keeper.priceCache[g] # NoEntry
        /\ keeper.clock - keeper.priceCache[g].timestamp >= CacheTtl

\* ------------------------------------------- the owner index (C9)
\* The trigger-only registry with every agent id and every user, one
\* strategy, and only the operations that touch ownership.
IndexStrategies == {Strategy(1, 2, TRUE, 1, 2, 1, TRUE, 0, 0)}

InitIndex ==
    /\ Init
    /\ contract = "trigger"
    /\ pyth = [price |-> 2, expo |-> -8, publishTime |-> StartTime]

NextIndex ==
    \/ \E id \in AgentIds, caller \in Users, label \in Labels,
          s \in IndexStrategies : TriggerCreateAgent(id, caller, label, s)
    \/ \E id \in AgentIds, caller \in Users,
          newOwner \in Users \cup {ZeroAddress} :
              TransferAgentOwnership(id, caller, newOwner)

SpecIndex == InitIndex /\ [][NextIndex]_vars

\* C9: every existing agent id is exactly once in userAgents of its owner
\* and in no other user's list.
C9_OwnerIndex ==
    \A a \in AgentIds :
        agents[a].exists
        => \A u \in Users :
               Occurrences(userAgents[u], a)
                   = (IF u = agents[a].owner THEN 1 ELSE 0)

\* An agent was transferred away from an owner who still holds two others.
C9_Witness ==
    \E a \in AgentIds, u \in Users :
        /\ last = Call("transferAgentOwnership", a, "ok")
        /\ agents[a].owner # u
        /\ Len(userAgents[u]) >= 2
        /\ Len(userAgents[agents[a].owner]) >= 1

====
